---- MODULE Spec2Model ----
(***************************************************************************)
(* Model of the query-parameter resolvers and the event retrieval tool of  *)
(* the social-sniper agent.                                                *)
(*                                                                         *)
(* A resolver is a pure function of its input.  The state is one pending   *)
(* tool call (`call`) and its result (`result`).  Init draws the call from *)
(* bounded input sets; one action per tool applies the tool's execute      *)
(* handler to the call.                                                    *)
(*                                                                         *)
(* Text.  A query is a sequence of whitespace-separated tokens, each a     *)
(* string.  A token of the vocabularies below is a word (letters and       *)
(* punctuation marks), a number (digits only) or a number glued to a unit  *)
(* ("10km").  A regular expression of the source is modelled by a          *)
(* predicate on the token sequence that computes on the characters of the  *)
(* tokens (substring, prefix, suffix, digits), exact for such tokens.      *)
(* Confidences are in hundredths (95 is 0.95).                             *)
(***************************************************************************)
EXTENDS Integers, Sequences, FiniteSets, TLC

VARIABLES call, result

vars == <<call, result>>

(***************************************************************************)
(* Bounds of the model.                                                    *)
(***************************************************************************)
MaxPhrases == 3
MaxTagPhrases == 2
MaxLimitPhrases == 2
MaxWhenPhrases == 2
MaxLocationPhrases == 2
MaxEvents == 3

(***************************************************************************)
(* Optional values: undefined is <<>>, a present value v is <<v>>.         *)
(***************************************************************************)
Undefined == <<>>
Some(v) == <<v>>
IsDefined(o) == Len(o) > 0
ValueOf(o) == o[1]

(***************************************************************************)
(* Strings.                                                                *)
(***************************************************************************)
Includes(s, t) ==
    \E i \in 1..(Len(s) - Len(t) + 1) : SubSeq(s, i, i + Len(t) - 1) = t

StartsWith(s, t) == Len(t) <= Len(s) /\ SubSeq(s, 1, Len(t)) = t

EndsWith(s, t) == Len(t) <= Len(s) /\ SubSeq(s, Len(s) - Len(t) + 1, Len(s)) = t

CharAt(s, i) == SubSeq(s, i, i)

UpperLetters ==
    <<"A", "B", "C", "D", "E", "F", "G", "H", "I", "J", "K", "L", "M",
      "N", "O", "P", "Q", "R", "S", "T", "U", "V", "W", "X", "Y", "Z">>

LowerLetters ==
    <<"a", "b", "c", "d", "e", "f", "g", "h", "i", "j", "k", "l", "m",
      "n", "o", "p", "q", "r", "s", "t", "u", "v", "w", "x", "y", "z">>

LowerChar(c) ==
    IF \E i \in DOMAIN UpperLetters : UpperLetters[i] = c
    THEN LowerLetters[CHOOSE i \in DOMAIN UpperLetters : UpperLetters[i] = c]
    ELSE c

RECURSIVE ToLowerCase(_)
ToLowerCase(s) ==
    IF Len(s) = 0 THEN ""
    ELSE LowerChar(CharAt(s, 1)) \o ToLowerCase(SubSeq(s, 2, Len(s)))

\* The tokens of a string lower-cased: the view a /i expression has of it.
LowerTokens(q) == [i \in DOMAIN q |-> ToLowerCase(q[i])]

DigitChars == <<"0", "1", "2", "3", "4", "5", "6", "7", "8", "9">>

IsDigit(c) == \E i \in DOMAIN DigitChars : DigitChars[i] = c

DigitValue(c) == (CHOOSE i \in DOMAIN DigitChars : DigitChars[i] = c) - 1

\* The longest run of digits a string starts with: what (\d+) takes.
RECURSIVE DigitsPrefix(_)
DigitsPrefix(s) ==
    IF Len(s) > 0 /\ IsDigit(CharAt(s, 1))
    THEN CharAt(s, 1) \o DigitsPrefix(SubSeq(s, 2, Len(s)))
    ELSE ""

AfterDigits(s) == SubSeq(s, Len(DigitsPrefix(s)) + 1, Len(s))

IsNumber(s) == Len(s) > 0 /\ DigitsPrefix(s) = s

\* parseInt(s, 10) of a string of digits.
RECURSIVE ParseInt(_)
ParseInt(s) ==
    IF Len(s) = 0 THEN 0
    ELSE 10 * ParseInt(SubSeq(s, 1, Len(s) - 1)) + DigitValue(CharAt(s, Len(s)))

RECURSIVE Concat(_)
Concat(ws) == IF Len(ws) = 0 THEN "" ELSE Head(ws) \o Concat(Tail(ws))

RECURSIVE Flatten(_)
Flatten(ps) == IF Len(ps) = 0 THEN <<>> ELSE Head(ps) \o Flatten(Tail(ps))

\* All sequences of at most n phrases of P, each flattened to its tokens.
PhraseSeqs(P, n) == UNION {[1..k -> P] : k \in 0..n}

Queries(P, n) == {Flatten(ps) : ps \in PhraseSeqs(P, n)}

(***************************************************************************)
(* Word-anchored expressions.  /\bw1\s*w2\s*...\s*wn\b/ matches from token *)
(* i when the words, glued (\s* allows no space) or spread over tokens in  *)
(* a row, start and end at a word boundary: the first token ends with a    *)
(* run of the words, the tokens between are runs of the words, the last    *)
(* token starts with the rest.                                             *)
(***************************************************************************)
\* A word character of a regular expression (\w).
IsWordChar(c) ==
    \/ IsDigit(c)
    \/ c = "_"
    \/ \E i \in DOMAIN LowerLetters : LowerLetters[i] = c \/ UpperLetters[i] = c

\* The positions at which t occurs in s.
Occurrences(s, t) ==
    {p \in 1..(Len(s) - Len(t) + 1) : SubSeq(s, p, p + Len(t) - 1) = t}

BoundaryBefore(s, p) == p = 1 \/ ~IsWordChar(CharAt(s, p - 1))

BoundaryAfter(s, p) == p = Len(s) \/ ~IsWordChar(CharAt(s, p + 1))

\* /\bw\b/ inside one token.
WordIn(s, w) ==
    \E p \in Occurrences(s, w) : BoundaryBefore(s, p) /\ BoundaryAfter(s, p + Len(w) - 1)

EndsAsWord(s, w) == EndsWith(s, w) /\ BoundaryBefore(s, Len(s) - Len(w) + 1)

StartsAsWord(s, w) == StartsWith(s, w) /\ BoundaryAfter(s, Len(w))

\* The tokens at which the rest of a row of words can end, the row having
\* started in an earlier token.
RECURSIVE PhraseFollow(_, _, _)
PhraseFollow(q, j, ws) ==
    IF j > Len(q) THEN {}
    ELSE UNION {IF k = Len(ws)
                THEN (IF StartsAsWord(q[j], Concat(ws)) THEN {j} ELSE {})
                ELSE IF q[j] = Concat(SubSeq(ws, 1, k))
                THEN PhraseFollow(q, j + 1, SubSeq(ws, k + 1, Len(ws)))
                ELSE {} :
                k \in 1..Len(ws)}

\* The tokens at which a row of whole words that starts in token i can end.
PhraseEnds(q, i, ws) ==
    (IF WordIn(q[i], Concat(ws)) THEN {i} ELSE {})
    \cup UNION {IF EndsAsWord(q[i], Concat(SubSeq(ws, 1, k)))
                THEN PhraseFollow(q, i + 1, SubSeq(ws, k + 1, Len(ws)))
                ELSE {} :
                k \in 1..(Len(ws) - 1)}

PhraseAt(q, i, ws) == i <= Len(q) /\ PhraseEnds(q, i, ws) # {}

HasPhrase(q, ws) == \E i \in DOMAIN q : PhraseAt(q, i, ws)

HasWord(q, w) == \E i \in DOMAIN q : WordIn(q[i], w)

HasAnyPhrase(q, phrases) == \E ws \in phrases : HasPhrase(q, ws)

\* An expression without anchors, /frag/, finds frag inside some token.
HasFragment(q, frag) == \E i \in DOMAIN q : Includes(q[i], frag)

(***************************************************************************)
(* Expressions with a captured number, matched over the tokens by a        *)
(* cursor: the token reached, what is left of it, the digits captured.     *)
(* Every element after the first is preceded by \s* in the source.         *)
(***************************************************************************)
Cursor(at, i, rest, num) == [at |-> at, i |-> i, rest |-> rest, num |-> num]

Drop(s, n) == SubSeq(s, n + 1, Len(s))

\* The expression starts with the literal w, after a \b (anchored) or
\* anywhere in the token.
StartLit(q, i, w, anchored) ==
    {Cursor(p, i, Drop(q[i], p + Len(w) - 1), "") :
        p \in {p \in Occurrences(q[i], w) : ~anchored \/ BoundaryBefore(q[i], p)}}

\* The expression starts with (\d+), after a \b (anchored) or anywhere in
\* the token: at the start of a run of digits.
StartDigits(q, i, anchored) ==
    {Cursor(p, i, AfterDigits(Drop(q[i], p - 1)), DigitsPrefix(Drop(q[i], p - 1))) :
        p \in {p \in 1..Len(q[i]) :
                 /\ IsDigit(CharAt(q[i], p))
                 /\ IF anchored THEN BoundaryBefore(q[i], p)
                    ELSE p = 1 \/ ~IsDigit(CharAt(q[i], p - 1))}}

\* \s*w
LitFrom(q, c, w) ==
    IF c.rest # ""
    THEN IF StartsWith(c.rest, w)
         THEN {Cursor(c.at, c.i, Drop(c.rest, Len(w)), c.num)} ELSE {}
    ELSE IF c.i < Len(q) /\ StartsWith(q[c.i + 1], w)
         THEN {Cursor(c.at, c.i + 1, Drop(q[c.i + 1], Len(w)), c.num)}
         ELSE {}

Lit(q, cs, w) == UNION {LitFrom(q, c, w) : c \in cs}

\* \s*(?:w1|w2|...)
LitAny(q, cs, ws) == UNION {Lit(q, cs, w) : w \in ws}

\* \s*(?:w)?
Opt(q, cs, w) == cs \cup Lit(q, cs, w)

\* w with no space before it
LitNow(cs, w) ==
    {Cursor(c.at, c.i, Drop(c.rest, Len(w)), c.num) :
        c \in {c \in cs : StartsWith(c.rest, w)}}

\* (?:w)? with no space before it
OptNow(cs, w) == cs \cup LitNow(cs, w)

\* \s*(?:w1|w2|...)?
OptAny(q, cs, ws) == cs \cup LitAny(q, cs, ws)

\* [\s-]*: every place reached by skipping hyphens and spaces.
RECURSIVE SkipHyphensFrom(_, _)
SkipHyphensFrom(q, c) ==
    {c} \cup (IF c.rest # ""
              THEN IF CharAt(c.rest, 1) = "-"
                   THEN SkipHyphensFrom(q, Cursor(c.at, c.i, Drop(c.rest, 1), c.num))
                   ELSE {}
              ELSE IF c.i < Len(q) /\ CharAt(q[c.i + 1], 1) = "-"
                   THEN SkipHyphensFrom(q, Cursor(c.at, c.i + 1, Drop(q[c.i + 1], 1), c.num))
                   ELSE {})

SkipHyphens(q, cs) == UNION {SkipHyphensFrom(q, c) : c \in cs}

\* \s*w1\s*w2...
RECURSIVE LitSeq(_, _, _)
LitSeq(q, cs, ws) ==
    IF Len(ws) = 0 THEN cs ELSE LitSeq(q, Lit(q, cs, Head(ws)), Tail(ws))

\* \s*(\d+)
DigitsFrom(q, c) ==
    IF c.rest # ""
    THEN IF DigitsPrefix(c.rest) # ""
         THEN {Cursor(c.at, c.i, AfterDigits(c.rest), DigitsPrefix(c.rest))}
         ELSE {}
    ELSE IF c.i < Len(q) /\ DigitsPrefix(q[c.i + 1]) # ""
         THEN {Cursor(c.at, c.i + 1, AfterDigits(q[c.i + 1]), DigitsPrefix(q[c.i + 1]))}
         ELSE {}

DigitsStep(q, cs) == UNION {DigitsFrom(q, c) : c \in cs}

\* \b after the last element: no word character follows.
AtBoundary(cs) == {c \in cs : c.rest = "" \/ ~IsWordChar(CharAt(c.rest, 1))}

\* String.match of an expression given by its matches at each token: the
\* digits captured by the leftmost match, "" when nothing matches.
FirstCapture(q, M(_)) ==
    LET at == {i \in DOMAIN q : M(i) # {}}
    IN  IF at = {} THEN ""
        ELSE LET first == CHOOSE i \in at : \A j \in at : i <= j
                 leftmost == CHOOSE c \in M(first) : \A d \in M(first) : c.at <= d.at
             IN  leftmost.num

(***************************************************************************)
(* Radius resolver (radiusTool).                                           *)
(***************************************************************************)
NEIGHBORHOODS ==
    {"koramangala", "indiranagar", "hsr layout", "whitefield", "electronic city",
     "jayanagar", "jp nagar", "marathahalli", "bellandur", "sarjapur",
     "bandra", "andheri", "juhu", "powai", "worli", "lower parel", "malad",
     "aundh", "kothrud", "baner", "hinjewadi", "wakad", "viman nagar",
     "jubilee hills", "banjara hills", "madhapur", "gachibowli", "hitech city",
     "anna nagar", "t nagar", "adyar", "velachery", "ecr",
     "connaught place", "hauz khas", "vasant kunj", "dwarka", "saket"}

\* The proximity classes of AREA_CLASSIFICATIONS, in order.  The first
\* class of the source (explicit distance, radius -1) is skipped by the
\* loop and is handled by ExplicitDistance.
AREA_CLASSIFICATIONS ==
    << [patterns |-> {<<"nearby">>, <<"near", "me">>, <<"near", "here">>,
                      <<"close", "by">>, <<"walking", "distance">>},
        radius |-> 3, type |-> "neighborhood"],
       [patterns |-> {<<"in", "the", "area">>, <<"around", "here">>},
        radius |-> 5, type |-> "neighborhood"],
       [patterns |-> {<<"anywhere", "in">>, <<"all", "over">>, <<"throughout">>},
        radius |-> 25, type |-> "region"] >>

\* /within\s*(\d+)\s*km/i
WithinKmAt(q, i) == Lit(q, DigitsStep(q, StartLit(q, i, "within", FALSE)), "km")

\* /(\d+)\s*km\s*(?:radius|around|near)/i
KmRadiusAt(q, i) ==
    LitAny(q, Lit(q, StartDigits(q, i, FALSE), "km"), {"radius", "around", "near"})

\* query.match(/within.../i) || query.match(/(\d+)\s*km.../i)
ExplicitDistance(q) ==
    LET within == FirstCapture(q, LAMBDA i : WithinKmAt(q, i))
    IN  IF within # "" THEN within
        ELSE FirstCapture(q, LAMBDA i : KmRadiusAt(q, i))

RadiusLocationType(radius) ==
    IF radius <= 5 THEN "neighborhood" ELSE IF radius <= 25 THEN "city" ELSE "region"

RadiusResult(radius, type, branch) ==
    [success |-> TRUE, radiusKm |-> radius, locationType |-> type, branch |-> branch]

RadiusExplicit(explicit) ==
    RadiusResult(ParseInt(explicit), RadiusLocationType(ParseInt(explicit)), "explicit")

\* The loop over the proximity classes: the first class with a matching
\* pattern decides.
ProximityMatches(queryLower) ==
    {k \in DOMAIN AREA_CLASSIFICATIONS :
        HasAnyPhrase(queryLower, AREA_CLASSIFICATIONS[k].patterns)}

\* RadiusTool with the neighborhood test placed before the explicit distance.
RadiusToolNeighborhoodFirst(query, detectedLocation, isNeighborhood) ==
    LET queryLower == LowerTokens(query)
        locationLower ==
            ToLowerCase(IF IsDefined(detectedLocation) THEN ValueOf(detectedLocation) ELSE "")
        explicit == ExplicitDistance(queryLower)
    IN  IF (IsDefined(isNeighborhood) /\ ValueOf(isNeighborhood))
           \/ locationLower \in NEIGHBORHOODS
        THEN RadiusResult(5, "neighborhood", "neighborhood")
        ELSE IF explicit # "" THEN RadiusExplicit(explicit)
        ELSE RadiusResult(20, "city", "default")

\* RadiusTool without the test of the location for a neighborhood name
\* inside it.
RadiusToolExactNeighborhood(query, detectedLocation, isNeighborhood) ==
    LET queryLower == LowerTokens(query)
        locationLower ==
            ToLowerCase(IF IsDefined(detectedLocation) THEN ValueOf(detectedLocation) ELSE "")
        explicit == ExplicitDistance(queryLower)
        prox == ProximityMatches(queryLower)
    IN  IF explicit # "" THEN RadiusExplicit(explicit)
        ELSE IF (IsDefined(isNeighborhood) /\ ValueOf(isNeighborhood))
                \/ locationLower \in NEIGHBORHOODS
        THEN RadiusResult(5, "neighborhood", "neighborhood")
        ELSE IF prox # {}
        THEN LET k == CHOOSE k \in prox : \A j \in prox : k <= j
             IN  RadiusResult(AREA_CLASSIFICATIONS[k].radius,
                              AREA_CLASSIFICATIONS[k].type, "proximity")
        ELSE IF locationLower # "" THEN RadiusResult(20, "city", "location")
        ELSE RadiusResult(20, "city", "default")

RadiusTool(query, detectedLocation, isNeighborhood) ==
    LET queryLower == LowerTokens(query)
        locationLower ==
            ToLowerCase(IF IsDefined(detectedLocation) THEN ValueOf(detectedLocation) ELSE "")
        explicit == ExplicitDistance(queryLower)
        prox == ProximityMatches(queryLower)
    IN  IF explicit # "" THEN RadiusExplicit(explicit)
        ELSE IF (IsDefined(isNeighborhood) /\ ValueOf(isNeighborhood))
                \/ locationLower \in NEIGHBORHOODS
        THEN RadiusResult(5, "neighborhood", "neighborhood")
        ELSE IF prox # {}
        THEN LET k == CHOOSE k \in prox : \A j \in prox : k <= j
             IN  RadiusResult(AREA_CLASSIFICATIONS[k].radius,
                              AREA_CLASSIFICATIONS[k].type, "proximity")
        ELSE IF locationLower # ""
        THEN IF \E n \in NEIGHBORHOODS :
                    Includes(locationLower, n) \/ Includes(n, locationLower)
             THEN RadiusResult(5, "neighborhood", "location-neighborhood")
             ELSE RadiusResult(20, "city", "location")
        ELSE RadiusResult(20, "city", "default")

\* Inputs of the radius resolver.
RadiusPhrases ==
    {<<"within", "7", "km">>, <<"Within", "30", "KM">>, <<"within", "0", "km">>,
     <<"within", "10km">>, <<"5", "km", "radius">>, <<"nearby">>,
     <<"anywhere", "in">>, <<"in", "the", "area">>}

RadiusLocations ==
    {Undefined, Some(""), Some("Koramangala"), Some("Pune"), Some("HSR Layout, Bengaluru")}

RadiusFlags == {Undefined, Some(TRUE), Some(FALSE)}

RadiusCalls ==
    [tool : {"radius"}, query : Queries(RadiusPhrases, MaxPhrases),
     detectedLocation : RadiusLocations, isNeighborhood : RadiusFlags]

(***************************************************************************)
(* Regular expressions of the tag resolvers, by shape:                     *)
(*   W(ws)        /\bw1\s*w2...\b/   whole words in a row                   *)
(*   F(a)         /a/                a inside a token                       *)
(*   Sfx(a)       /a\b/              a token ends with a                    *)
(*   Adj(a, b)    /a b/              a token ends with a, the next starts   *)
(*                                   with b                                 *)
(*   Glue(a, b)   /a\s*b/            as Adj, or a and b glued in one token  *)
(*   Ord(a, b)    /a.*b/             a, and b somewhere after it            *)
(*   WOrd(as, bs) /\b(as)\b.*\b(bs)\b/  a phrase of as, a phrase of bs      *)
(*                                   after it                               *)
(*   Unless(a, anchored, ws, gap)  /a(?!\s*(?:ws))/   a not followed by one *)
(*                                   of ws; gap: \s+ instead of \s*         *)
(*   WNum(ws)     /\bw1\s*w2\s*\d+/   words and a number after them         *)
(*   Hyph(a, b)   /\ba[\s-]*b\b/     a and b, hyphens or spaces between    *)
(***************************************************************************)
Rx(kind, a, b, ws, vs, flag) ==
    [kind |-> kind, a |-> a, b |-> b, ws |-> ws, vs |-> vs, flag |-> flag]

W(ws) == Rx("word", "", "", {ws}, {}, FALSE)
F(a) == Rx("frag", a, "", {}, {}, FALSE)
Sfx(a) == Rx("suffix", a, "", {}, {}, FALSE)
Adj(a, b) == Rx("adj", a, b, {}, {}, FALSE)
Glue(a, b) == Rx("adj", a, b, {}, {}, TRUE)
Ord(a, b) == Rx("ord", a, b, {}, {}, FALSE)
WOrd(as, bs) == Rx("word-ord", "", "", as, bs, FALSE)
WNum(ws) == Rx("word-num", "", "", {ws}, {}, FALSE)
Hyph(a, b) == Rx("hyphen", a, b, {}, {}, FALSE)
Unless(a, anchored, ws, gap) == Rx("unless", a, IF anchored THEN "b" ELSE "", ws, {}, gap)

RxAdj(q, a, b, glued) ==
    \/ \E i \in 1..(Len(q) - 1) : EndsWith(q[i], a) /\ StartsWith(q[i + 1], b)
    \/ glued /\ HasFragment(q, a \o b)

RxOrd(q, a, b) ==
    \/ \E i \in DOMAIN q : \E j \in DOMAIN q :
          i < j /\ Includes(q[i], a) /\ Includes(q[j], b)
    \/ \E i \in DOMAIN q : \E pa \in Occurrences(q[i], a) :
          \E pb \in Occurrences(q[i], b) : pa + Len(a) <= pb

RxWordOrd(q, as, bs) ==
    \E x \in as : \E y \in bs : \E i \in DOMAIN q :
        \E e \in PhraseEnds(q, i, x) :
            \E j \in (e + 1)..Len(q) : PhraseAt(q, j, y)

\* a occurs (at the start of a token when anchored) and what follows it is
\* none of ws: the rest of the token or, when the token ends with a, the
\* next token.  With gap (\s+) only the next token can be one of ws.
RxUnless(q, a, anchored, ws, gap) ==
    \E i \in DOMAIN q :
        \E p \in (IF anchored THEN Occurrences(q[i], a) \cap {1}
                  ELSE Occurrences(q[i], a)) :
            LET rest == Drop(q[i], p + Len(a) - 1)
            IN  IF rest = ""
                THEN ~(i < Len(q) /\ \E w \in ws : StartsWith(q[i + 1], w))
                ELSE gap \/ ~(\E w \in ws : StartsWith(rest, w))

\* RegExp.test on the (lower-cased) tokens.
RxTest(q, r) ==
    CASE r.kind = "word" -> HasAnyPhrase(q, r.ws)
      [] r.kind = "frag" -> HasFragment(q, r.a)
      [] r.kind = "suffix" -> \E i \in DOMAIN q : EndsWith(q[i], r.a)
      [] r.kind = "adj" -> RxAdj(q, r.a, r.b, r.flag)
      [] r.kind = "ord" -> RxOrd(q, r.a, r.b)
      [] r.kind = "word-ord" -> RxWordOrd(q, r.ws, r.vs)
      [] r.kind = "unless" -> RxUnless(q, r.a, r.b = "b", r.ws, r.flag)
      [] r.kind = "word-num" ->
             \E i \in DOMAIN q : \E ws \in r.ws :
                 DigitsStep(q, LitSeq(q, StartLit(q, i, Head(ws), TRUE), Tail(ws))) # {}
      [] r.kind = "hyphen" ->
             \E i \in DOMAIN q :
                 AtBoundary(Lit(q, SkipHyphens(q, StartLit(q, i, r.a, TRUE)), r.b)) # {}

\* patterns.some((p) => p.test(query))
SomeTest(q, rs) == \E k \in DOMAIN rs : RxTest(q, rs[k])

(***************************************************************************)
(* Arrays built through a JavaScript Set: insertion order, no duplicates.  *)
(***************************************************************************)
Range(xs) == {xs[i] : i \in DOMAIN xs}

RECURSIVE Dedupe(_)
Dedupe(xs) ==
    IF Len(xs) = 0 THEN <<>>
    ELSE LET front == Dedupe(SubSeq(xs, 1, Len(xs) - 1))
             last == xs[Len(xs)]
         IN  IF last \in Range(front) THEN front ELSE Append(front, last)

\* Array.slice(0, n)
Slice(xs, n) == SubSeq(xs, 1, IF n < Len(xs) THEN n ELSE Len(xs))

RECURSIVE SelectSeqBy(_, _)
SelectSeqBy(xs, keep) ==
    IF Len(xs) = 0 THEN <<>>
    ELSE IF Head(xs) \in keep THEN <<Head(xs)>> \o SelectSeqBy(Tail(xs), keep)
    ELSE SelectSeqBy(Tail(xs), keep)

Max(a, b) == IF a >= b THEN a ELSE b
Min(a, b) == IF a <= b THEN a ELSE b

(***************************************************************************)
(* Taxonomy (INTEREST_CATEGORIES) and keyword matching.                    *)
(***************************************************************************)
INTEREST_CATEGORIES ==
    << [name |-> "Music",
        secondaryCategories |-> <<"Live Music", "DJ/Club", "Concerts", "Music Festivals">>,
        interests |-> <<"Live Performances", "DJ Nights", "Classical Music", "Rock/Metal",
                        "Electronic/EDM", "Jazz/Blues", "Hip-Hop/Rap", "Indie/Alternative",
                        "Pop", "Karaoke", "Open Mic">>],
       [name |-> "Entertainment",
        secondaryCategories |-> <<"Comedy", "Theatre", "Movies", "Gaming">>,
        interests |-> <<"Stand-up Comedy", "Improv Shows", "Theatre/Drama", "Film Screenings",
                        "Gaming Events", "Esports", "Board Games", "Trivia Nights",
                        "Magic Shows", "Circus/Cabaret">>],
       [name |-> "Food & Drink",
        secondaryCategories |-> <<"Dining Experiences", "Bars & Pubs", "Food Events", "Workshops">>,
        interests |-> <<"Fine Dining", "Street Food", "Food Festivals", "Wine Tasting",
                        "Beer/Brewery Tours", "Cocktail Events", "Cooking Classes",
                        "Coffee/Tea Events", "Brunches", "Pop-up Restaurants">>],
       [name |-> "Sports & Fitness",
        secondaryCategories |-> <<"Watch Parties", "Participatory Sports", "Fitness Classes",
                                  "Adventure">>,
        interests |-> <<"Cricket", "Football/Soccer", "Running/Marathons", "Cycling", "Yoga",
                        "CrossFit/HIIT", "Swimming", "Combat Sports", "Dance Classes",
                        "Team Sports">>],
       [name |-> "Arts & Culture",
        secondaryCategories |-> <<"Visual Arts", "Museums", "Literary", "Cultural Events">>,
        interests |-> <<"Art Exhibitions", "Museum Visits", "Photography", "Book Clubs",
                        "Poetry Events", "Writing Workshops", "Cultural Festivals",
                        "Heritage Walks", "Craft Workshops", "Design Events">>],
       [name |-> "Tech & Innovation",
        secondaryCategories |-> <<"Meetups", "Conferences", "Workshops", "Hackathons">>,
        interests |-> <<"Tech Talks", "Startup Events", "AI/ML Workshops", "Web Development",
                        "Product Management", "Blockchain/Web3", "Data Science", "Hackathons",
                        "Coding Bootcamps", "Tech Networking">>],
       [name |-> "Outdoor & Adventure",
        secondaryCategories |-> <<"Nature", "Travel", "Extreme Sports", "Water Activities">>,
        interests |-> <<"Hiking/Trekking", "Camping", "Rock Climbing", "Kayaking/Rafting",
                        "Cycling Tours", "Wildlife Safari", "Stargazing", "Beach Activities",
                        "Paragliding", "Road Trips">>],
       [name |-> "Wellness & Health",
        secondaryCategories |-> <<"Mind & Body", "Alternative Healing", "Health Workshops",
                                  "Retreats">>,
        interests |-> <<"Meditation", "Sound Healing", "Spa/Wellness", "Mental Health Workshops",
                        "Nutrition Seminars", "Holistic Health", "Breathwork",
                        "Wellness Retreats", "Detox Programs", "Self-care Events">>],
       [name |-> "Social & Networking",
        secondaryCategories |-> <<"Professional", "Casual", "Community", "Dating">>,
        interests |-> <<"Networking Events", "Business Meetups", "Expat Gatherings",
                        "Singles Events", "Community Cleanups", "Volunteer Events",
                        "Language Exchange", "Hobby Groups", "Pet Meetups", "Themed Parties">>] >>

PrimaryNames == {INTEREST_CATEGORIES[c].name : c \in DOMAIN INTEREST_CATEGORIES}
SecondaryNames == UNION {Range(INTEREST_CATEGORIES[c].secondaryCategories) :
                            c \in DOMAIN INTEREST_CATEGORIES}
InterestNames == UNION {Range(INTEREST_CATEGORIES[c].interests) :
                            c \in DOMAIN INTEREST_CATEGORIES}

\* name.toLowerCase() of every taxonomy name.
LowerName == [n \in PrimaryNames \cup SecondaryNames \cup InterestNames |-> ToLowerCase(n)]

\* normalizedKeywords.some((k) => name.toLowerCase().includes(k))
KeywordHit(keywords, name) == \E k \in keywords : Includes(LowerName[name], k)

RECURSIVE SelectHits(_, _)
SelectHits(names, keywords) ==
    IF Len(names) = 0 THEN <<>>
    ELSE IF KeywordHit(keywords, Head(names))
    THEN <<Head(names)>> \o SelectHits(Tail(names), keywords)
    ELSE SelectHits(Tail(names), keywords)

\* Array.flatMap
FlatMap(xs, Op(_)) == Flatten([i \in DOMAIN xs |-> Op(xs[i])])

\* findMatchingTags: a category is added when its name matches or one of
\* its secondary categories or interests matches.
FindMatchingTags(keywords) ==
    LET lower == {ToLowerCase(k) : k \in keywords}
        secOf(c) == SelectHits(c.secondaryCategories, lower)
        intOf(c) == SelectHits(c.interests, lower)
        catOf(c) == IF KeywordHit(lower, c.name) \/ secOf(c) # <<>> \/ intOf(c) # <<>>
                    THEN <<c.name>> ELSE <<>>
    IN  [categories |-> FlatMap(INTEREST_CATEGORIES, catOf),
         secondaryCategories |-> Dedupe(FlatMap(INTEREST_CATEGORIES, secOf)),
         interests |-> Dedupe(FlatMap(INTEREST_CATEGORIES, intOf))]

\* token.replace(/[^\w\s]/g, " ").split(/\s+/): the words of a token.
RECURSIVE WordsOf(_, _)
WordsOf(s, word) ==
    IF Len(s) = 0 THEN (IF word = "" THEN {} ELSE {word})
    ELSE IF IsWordChar(CharAt(s, 1)) THEN WordsOf(Drop(s, 1), word \o CharAt(s, 1))
    ELSE (IF word = "" THEN {} ELSE {word}) \cup WordsOf(Drop(s, 1), "")

\* extractKeywords with the given stop words; the keywords as a set (the
\* callers only ask whether some keyword is included in a name).
ExtractKeywordsWith(q, stopWords) ==
    {w \in UNION {WordsOf(ToLowerCase(q[i]), "") : i \in DOMAIN q} :
        Len(w) > 2 /\ w \notin stopWords}

(***************************************************************************)
(* Tag resolver of the parameter tools (tagsTool).                         *)
(***************************************************************************)
Ws(phrases) == Rx("word", "", "", phrases, {}, FALSE)

Pattern(patterns, primary, secondary, interests, confidence, highPriority) ==
    [patterns |-> patterns, primaryCategories |-> primary,
     secondaryCategories |-> secondary, interests |-> interests,
     confidence |-> confidence, highPriority |-> highPriority]

MatchWords == {<<"match">>, <<"game">>, <<"ipl">>, <<"cricket">>, <<"football">>}

SEMANTIC_PATTERNS ==
    << Pattern(<<W(<<"edm">>),
                 Ws({<<"electronic">>, <<"electronic", "dance">>, <<"electronic", "music">>,
                     <<"electronic", "dance", "music">>}),
                 Ws({<<"dj", "night">>, <<"dj", "set">>, <<"dj", "party">>})>>,
               <<"Music">>, <<"Nightlife & Parties">>, <<"Electronic/EDM">>, 95, TRUE),
       Pattern(<<W(<<"running">>), W(<<"marathon">>),
                 Ws({<<"5k">>, <<"10k">>, <<"21k">>, <<"half", "marathon">>}),
                 W(<<"fun", "run">>)>>,
               <<"Outdoor & Adventure">>, <<"Sports & Fitness">>, <<"Running/Marathons">>,
               95, TRUE),
       Pattern(<<W(<<"yoga">>), W(<<"wellness">>), W(<<"meditation">>), W(<<"mindfulness">>)>>,
               <<"Health & Wellness">>, <<>>, <<"Yoga/Meditation", "Wellness Retreats">>,
               95, TRUE),
       Pattern(<<Ws({<<"team", "outing">>, <<"team", "building">>, <<"team", "activity">>}),
                 Ws({<<"corporate", "outing">>, <<"corporate", "event">>})>>,
               <<"Social & Networking">>, <<"Outdoor & Adventure">>,
               <<"Team Building", "Corporate Events">>, 90, TRUE),
       Pattern(<<Ws({<<"bachelor", "party">>, <<"bachelor", "bash">>,
                     <<"bachelorette", "party">>, <<"bachelorette", "bash">>}),
                 Ws({<<"stag", "party">>, <<"stag", "night">>})>>,
               <<"Nightlife & Parties", "Social & Networking">>, <<>>,
               <<"Club Events", "Bars & Pubs">>, 90, TRUE),
       Pattern(<<W(<<"birthday">>), W(<<"bday">>)>>,
               <<"Social & Networking", "Entertainment">>, <<"Nightlife & Parties">>, <<>>,
               85, TRUE),
       Pattern(<<WOrd({<<"watch">>, <<"screening">>, <<"live", "screening">>}, MatchWords),
                 WOrd(MatchWords, {<<"screening">>, <<"watch", "party">>}),
                 Ws({<<"india", "vs">>, <<"ind", "vs">>})>>,
               <<"Sports & Fitness", "Entertainment">>, <<"Nightlife & Parties">>,
               <<"Match Screenings", "Watch Parties">>, 90, TRUE),
       Pattern(<<Ws({<<"date", "night">>, <<"date", "idea">>, <<"date", "activity">>}),
                 W(<<"romantic">>), W(<<"anniversary">>)>>,
               <<"Food & Drink", "Entertainment", "Arts & Culture">>, <<>>,
               <<"Fine Dining", "Live Music">>, 85, TRUE),
       Pattern(<<W(<<"jazz">>), W(<<"blues">>)>>,
               <<"Music">>, <<>>, <<"Jazz/Blues">>, 90, FALSE),
       Pattern(<<W(<<"rock">>), W(<<"metal">>)>>,
               <<"Music">>, <<>>, <<"Rock/Metal">>, 85, FALSE),
       Pattern(<<W(<<"indie">>), W(<<"independent", "music">>)>>,
               <<"Music">>, <<>>, <<"Indie Music">>, 85, FALSE),
       Pattern(<<W(<<"classical">>), W(<<"orchestra">>), W(<<"symphony">>)>>,
               <<"Music">>, <<>>, <<"Classical/Orchestral">>, 90, FALSE),
       Pattern(<<W(<<"hiking">>), W(<<"trekking">>), W(<<"trail">>)>>,
               <<"Outdoor & Adventure">>, <<>>, <<"Hiking/Trekking">>, 90, FALSE),
       Pattern(<<W(<<"startup">>),
                 Ws({<<"tech", "meetup">>, <<"tech", "event">>, <<"tech", "networking">>}),
                 W(<<"programming">>)>>,
               <<"Tech & Innovation">>, <<"Social & Networking">>,
               <<"Startup Events", "Tech Meetups">>, 85, FALSE),
       Pattern(<<W(<<"workshop">>), Ws({<<"class">>, <<"classes">>}), W(<<"learn">>)>>,
               <<"Learning & Development">>, <<>>, <<"Workshops">>, 80, FALSE),
       Pattern(<<Ws({<<"food", "festival">>, <<"food", "truck">>, <<"food", "fair">>}),
                 W(<<"cuisine">>)>>,
               <<"Food & Drink">>, <<>>, <<"Food Festivals">>, 85, FALSE),
       Pattern(<<W(<<"wine">>), W(<<"tasting">>), W(<<"brewery">>)>>,
               <<"Food & Drink">>, <<>>, <<"Wine Tasting", "Craft Beer">>, 85, FALSE),
       Pattern(<<W(<<"comedy">>), W(<<"stand", "up">>), W(<<"standup">>)>>,
               <<"Entertainment">>, <<>>, <<"Comedy Shows", "Stand-up">>, 90, FALSE),
       Pattern(<<Ws({<<"theatre">>, <<"theater">>}), W(<<"drama">>), W(<<"play">>)>>,
               <<"Arts & Culture">>, <<"Entertainment">>, <<"Theater/Drama">>, 85, FALSE),
       Pattern(<<Ws({<<"art", "exhibition">>, <<"art", "gallery">>, <<"art", "show">>}),
                 W(<<"painting">>)>>,
               <<"Arts & Culture">>, <<>>, <<"Art Exhibitions", "Painting">>, 85, FALSE),
       Pattern(<<Ws({<<"club">>, <<"clubbing">>}), W(<<"night", "life">>), W(<<"nightlife">>),
                 W(<<"party">>), W(<<"parties">>)>>,
               <<"Nightlife & Parties">>, <<>>, <<"Club Events">>, 85, FALSE) >>

TagsStopWords ==
    {"a", "an", "the", "is", "are", "was", "were", "be", "been", "being",
     "have", "has", "had", "do", "does", "did", "will", "would", "could",
     "should", "may", "might", "can", "shall", "of", "at", "by", "for",
     "with", "about", "into", "through", "during", "before", "after",
     "above", "below", "to", "from", "up", "down", "in", "out", "on",
     "off", "over", "under", "again", "further", "then", "once", "here",
     "there", "when", "where", "why", "how", "all", "each", "few", "more",
     "most", "other", "some", "such", "no", "nor", "not", "only", "own",
     "same", "so", "than", "too", "very", "just", "and", "but", "if", "or",
     "because", "as", "until", "while", "i", "me", "my", "we", "our", "you",
     "your", "he", "him", "she", "her", "it", "they", "them", "what",
     "which", "who", "whom", "this", "that", "these", "those", "am",
     "looking", "want", "need", "find", "suggest", "recommend", "help",
     "please", "any", "something", "anything", "things", "events"}

TagsExtractKeywords(q) == ExtractKeywordsWith(q, TagsStopWords)

\* The indexes of the patterns of a table that match the (lower-cased)
\* tokens, in table order.
MatchedIn(table, q) ==
    SelectSeqBy([k \in DOMAIN table |-> k],
                {k \in DOMAIN table : SomeTest(q, table[k].patterns)})

RECURSIVE MaxConfidence(_, _)
MaxConfidence(table, ks) ==
    IF Len(ks) = 0 THEN 0
    ELSE Max(table[Head(ks)].confidence, MaxConfidence(table, Tail(ks)))

\* The result of matchSemanticPatterns for the matched patterns ks: every
\* matched pattern adds its tags, the confidence is the largest one.
CombinePatterns(ks) ==
    [primaryCategories |->
         Dedupe(FlatMap(ks, LAMBDA k : SEMANTIC_PATTERNS[k].primaryCategories)),
     secondaryCategories |->
         Dedupe(FlatMap(ks, LAMBDA k : SEMANTIC_PATTERNS[k].secondaryCategories)),
     interests |-> Dedupe(FlatMap(ks, LAMBDA k : SEMANTIC_PATTERNS[k].interests)),
     confidence |-> MaxConfidence(SEMANTIC_PATTERNS, ks)]

\* matchSemanticPatterns without the filter on highPriority.
MatchSemanticPatternsUnfiltered(q, highPriorityOnly) ==
    LET matched == MatchedIn(SEMANTIC_PATTERNS, q)
    IN  IF Len(matched) = 0 THEN Undefined ELSE Some(CombinePatterns(matched))

\* matchSemanticPatterns: <<>> is null, <<r>> a result.
MatchSemanticPatterns(q, highPriorityOnly) ==
    LET matched == MatchedIn(SEMANTIC_PATTERNS, q)
        kept == IF highPriorityOnly
                THEN SelectSeqBy(matched, {k \in DOMAIN SEMANTIC_PATTERNS :
                                              SEMANTIC_PATTERNS[k].highPriority})
                ELSE matched
    IN  IF Len(kept) = 0 THEN Undefined ELSE Some(CombinePatterns(kept))

TagsResult(primary, secondary, interests, confidence, stage) ==
    [success |-> TRUE,
     primaryCategories |-> primary, secondaryCategories |-> secondary,
     interests |-> interests,
     allTags |-> Dedupe(primary \o secondary \o interests),
     confidence |-> confidence, stage |-> stage]

TagsFromMatch(m, stage) ==
    TagsResult(m.primaryCategories, m.secondaryCategories, m.interests, m.confidence, stage)

TagsTool(query, context) ==
    LET fullQuery == LowerTokens(IF IsDefined(context) /\ Len(ValueOf(context)) > 0
                                 THEN query \o ValueOf(context) ELSE query)
        highPriorityResult == MatchSemanticPatterns(fullQuery, TRUE)
        semanticResult == MatchSemanticPatterns(fullQuery, FALSE)
        keywordMatches == FindMatchingTags(TagsExtractKeywords(fullQuery))
    IN  IF IsDefined(highPriorityResult) /\ ValueOf(highPriorityResult).confidence >= 85
        THEN TagsFromMatch(ValueOf(highPriorityResult), "high-priority")
        ELSE IF IsDefined(semanticResult) /\ ValueOf(semanticResult).confidence >= 70
        THEN TagsFromMatch(ValueOf(semanticResult), "semantic")
        ELSE IF Len(keywordMatches.interests) > 0
                \/ Len(keywordMatches.secondaryCategories) > 0
        THEN TagsResult(keywordMatches.categories, keywordMatches.secondaryCategories,
                        keywordMatches.interests, 70, "keyword")
        ELSE IF IsDefined(semanticResult)
        THEN TagsFromMatch(ValueOf(semanticResult), "low-confidence")
        ELSE TagsResult(<<>>, <<>>, <<>>, 50, "default")

(***************************************************************************)
(* Tag resolver of the monitor (intentToTagsTool).                         *)
(***************************************************************************)
IntentPattern(patterns, categories, secondary, interests) ==
    [patterns |-> patterns, categories |-> categories, secondary |-> secondary,
     interests |-> interests]

highPriorityPatterns ==
    << IntentPattern(<<W(<<"edm">>), F("edm/"), Glue("electronic", "music"), F("techno"),
                       Glue("house", "music"), F("rave")>>,
                     <<"Music">>, <<"DJ/Club", "Music Festivals">>,
                     <<"DJ Nights", "Electronic/EDM">>),
       IntentPattern(<<Glue("running", "group"), Glue("marathon", "training"),
                       F("marathon"), F("running")>>,
                     <<"Sports & Fitness">>, <<"Participatory Sports", "Fitness Classes">>,
                     <<"Running/Marathons", "CrossFit/HIIT">>),
       IntentPattern(<<Glue("yoga", "retreat"), Glue("wellness", "workshop"), F("yoga"),
                       F("retreat"), F("wellness")>>,
                     <<"Wellness & Health">>, <<"Mind & Body", "Retreats">>,
                     <<"Yoga", "Meditation", "Spa/Wellness", "Wellness Retreats">>) >>

PartyTags ==
    [categories |-> <<"Entertainment", "Music", "Food & Drink">>,
     secondary |-> <<"DJ/Club", "Bars & Pubs", "Comedy">>,
     interests |-> <<"DJ Nights", "Cocktail Events", "Themed Parties", "Live Performances">>]

intentPatterns ==
    << IntentPattern(<<Ord("watch", "match"), Ord("match", "screen"), F("screening"),
                       Ord("watch", "game"), Adj("watch", "party"), Adj("india", "vs"),
                       Ord("vs", "match"), Adj("sports", "bar"), Adj("watch", "the")>>,
                     <<"Sports & Fitness", "Entertainment">>, <<"Watch Parties">>,
                     <<"Cricket", "Football/Soccer", "Film Screenings">>),
       IntentPattern(<<F("date"), F("romantic"), F("couple"), F("anniversary"),
                       F("girlfriend"), F("boyfriend"), F("spouse"), F("wife"), F("husband")>>,
                     <<"Food & Drink", "Arts & Culture", "Entertainment">>,
                     <<"Dining Experiences", "Visual Arts", "Theatre">>,
                     <<"Fine Dining", "Art Exhibitions", "Theatre/Drama", "Wine Tasting">>),
       IntentPattern(<<F("birthday"), F("bday"), F("b'day")>>,
                     <<"Entertainment", "Food & Drink", "Music">>,
                     <<"Dining Experiences", "Live Music", "Comedy">>,
                     <<"Fine Dining", "Live Performances", "Stand-up Comedy",
                       "Themed Parties">>),
       IntentPattern(<<F("bachelor"), F("bachelorette"), Adj("hen", "party"), F("stag")>>,
                     PartyTags.categories, PartyTags.secondary, PartyTags.interests),
       IntentPattern(<<F("party"), F("celebrate"), Adj("night", "out"), F("wild"),
                       F("crazy")>>,
                     PartyTags.categories, PartyTags.secondary, PartyTags.interests),
       IntentPattern(<<Adj("team", "outing"), Adj("office", "outing"),
                       Adj("team", "building"), Adj("corporate", "outing"), F("colleagues"),
                       F("coworkers"), Adj("company", "outing")>>,
                     <<"Social & Networking", "Outdoor & Adventure", "Entertainment">>,
                     <<"Professional", "Nature", "Gaming">>,
                     <<"Networking Events", "Hiking/Trekking", "Trivia Nights",
                       "Team Sports">>),
       IntentPattern(<<F("team"), F("office"), F("corporate"), F("company")>>,
                     <<"Social & Networking", "Entertainment">>,
                     <<"Professional", "Gaming">>,
                     <<"Networking Events", "Trivia Nights", "Team Sports">>),
       IntentPattern(<<F("chill"), F("relax"), F("calm"), F("peaceful"), F("unwind"),
                       F("quiet")>>,
                     <<"Wellness & Health", "Arts & Culture", "Music">>,
                     <<"Mind & Body", "Literary", "Live Music">>,
                     <<"Meditation", "Jazz/Blues", "Coffee/Tea Events">>),
       IntentPattern(<<Unless("learn", FALSE, {"yoga", "fitness", "running", "swimming"}, FALSE),
                       Adj("cooking", "class"), W(<<"course">>),
                       Unless("training", FALSE, {"marathon", "running", "fitness"}, FALSE),
                       F("skill"), F("coding"), F("craft")>>,
                     <<"Arts & Culture", "Tech & Innovation", "Food & Drink">>,
                     <<"Workshops", "Literary">>,
                     <<"Craft Workshops", "Coding Bootcamps", "Cooking Classes">>),
       IntentPattern(<<F("friends"), W(<<"gang">>), F("squad"), F("hangout"),
                       Adj("catch", "up"),
                       Unless("group", TRUE, {"of", "for", "training", "run"}, TRUE)>>,
                     <<"Social & Networking", "Entertainment", "Sports & Fitness">>,
                     <<"Casual", "Gaming">>,
                     <<"Trivia Nights", "Board Games", "Team Sports">>),
       IntentPattern(<<F("outdoor"), F("nature"), F("adventure"), F("trek"), F("hike"),
                       F("camp")>>,
                     <<"Outdoor & Adventure">>, <<"Nature", "Extreme Sports">>,
                     <<"Hiking/Trekking", "Camping", "Wildlife Safari">>),
       IntentPattern(<<F("startup"), F("business"), F("entrepreneur"), F("network"),
                       F("professional"), F("founder"), F("investor")>>,
                     <<"Tech & Innovation", "Social & Networking">>,
                     <<"Meetups", "Professional">>,
                     <<"Startup Events", "Networking Events", "Tech Talks">>),
       IntentPattern(<<F("music"), F("concert"), F("live"), F("band"), F("gig"),
                       F("singing"), F("singer")>>,
                     <<"Music">>, <<"Live Music", "Concerts">>,
                     <<"Live Performances", "Indie/Alternative", "Rock/Metal">>),
       IntentPattern(<<F("food"), F("eat"), F("cuisine"), F("restaurant"), F("foodie"),
                       F("dinner"), F("lunch"), F("brunch")>>,
                     <<"Food & Drink">>, <<"Dining Experiences", "Food Events">>,
                     <<"Fine Dining", "Street Food", "Food Festivals", "Brunches">>),
       IntentPattern(<<F("drink"), F("bar"), F("pub"), F("beer"), F("wine"), F("cocktail"),
                       F("brewery")>>,
                     <<"Food & Drink">>, <<"Bars & Pubs">>,
                     <<"Wine Tasting", "Beer/Brewery Tours", "Cocktail Events">>),
       IntentPattern(<<F("comedy"), F("laugh"), F("funny"), F("standup"), F("stand-up")>>,
                     <<"Entertainment">>, <<"Comedy">>,
                     <<"Stand-up Comedy", "Improv Shows">>),
       IntentPattern(<<F("art"), F("exhibition"), F("gallery"), F("museum"), F("culture")>>,
                     <<"Arts & Culture">>, <<"Visual Arts", "Museums">>,
                     <<"Art Exhibitions", "Museum Visits", "Photography">>),
       IntentPattern(<<F("health"), F("wellness"), F("yoga"), F("meditat"), F("spa"),
                       F("retreat"), F("healing")>>,
                     <<"Wellness & Health">>, <<"Mind & Body", "Retreats">>,
                     <<"Yoga", "Meditation", "Spa/Wellness", "Wellness Retreats">>),
       IntentPattern(<<F("run"), F("marathon"), F("5k"), F("10k"), F("jog"),
                       Adj("running", "group")>>,
                     <<"Sports & Fitness">>, <<"Participatory Sports", "Fitness Classes">>,
                     <<"Running/Marathons", "CrossFit/HIIT">>),
       IntentPattern(<<F("sport"), F("fitness"), F("gym"), F("exercise")>>,
                     <<"Sports & Fitness">>, <<"Participatory Sports", "Fitness Classes">>,
                     <<"Running/Marathons", "CrossFit/HIIT", "Yoga">>),
       IntentPattern(<<W(<<"edm">>), Glue("electronic", "music"), Sfx("electronic"),
                       W(<<"dj">>), F("techno"), Glue("house", "music"), F("rave"),
                       W(<<"club">>), F("edm/")>>,
                     <<"Music">>, <<"DJ/Club", "Music Festivals">>,
                     <<"DJ Nights", "Electronic/EDM">>),
       IntentPattern(<<F("tech"), F("code"), F("developer"), F("programming"), F("ai"),
                       F("ml")>>,
                     <<"Tech & Innovation">>, <<"Meetups", "Workshops", "Hackathons">>,
                     <<"Tech Talks", "AI/ML Workshops", "Hackathons">>) >>

IntentStopWords ==
    {"a", "an", "the", "and", "or", "but", "in", "on", "at", "to", "for", "of", "with",
     "is", "are", "was", "were", "be", "been", "being", "have", "has", "had", "do",
     "does", "did", "will", "would", "could", "should", "may", "might", "must", "i",
     "me", "my", "we", "us", "you", "your", "they", "them", "what", "where", "when",
     "how", "why", "want", "looking", "find", "search", "need", "things", "something",
     "stuff", "some", "any", "good", "best", "nice", "cool", "fun", "great", "awesome",
     "this", "that", "these", "those", "weekend", "today", "tomorrow", "tonight",
     "night", "day", "week", "month"}

IntentExtractKeywords(q) == ExtractKeywordsWith(q, IntentStopWords)

\* calculateConfidence adding the boost once for every matched name and
\* without the cap at 1.
calculateConfidencePerMatch(matches) ==
    50 + 30 * Len(matches.interests) + 15 * Len(matches.secondaryCategories)
       + 5 * Len(matches.categories)

calculateConfidence(matches) ==
    Min(100, 50 + (IF Len(matches.interests) > 0 THEN 30 ELSE 0)
               + (IF Len(matches.secondaryCategories) > 0 THEN 15 ELSE 0)
               + (IF Len(matches.categories) > 0 THEN 5 ELSE 0))

IntentTags(primary, secondary, interests, confidence, stage) ==
    [primaryCategories |-> primary, secondaryCategories |-> secondary,
     interests |-> interests, confidence |-> confidence, stage |-> stage]

\* analyzeIntentSemantically: the first matching high-priority pattern
\* returns at once; otherwise every matching pattern adds its tags, which
\* are cut to 3, 4 and 5 names.
analyzeIntentSemantically(lowerQuery) ==
    LET hp == MatchedIn(highPriorityPatterns, lowerQuery)
        ks == MatchedIn(intentPatterns, lowerQuery)
        matchCount == Len(ks)
    IN  IF Len(hp) > 0
        THEN IntentTags(highPriorityPatterns[Head(hp)].categories,
                        highPriorityPatterns[Head(hp)].secondary,
                        highPriorityPatterns[Head(hp)].interests, 90, "high-priority")
        ELSE IF matchCount = 0
        THEN IntentTags(<<"Entertainment">>, <<>>, <<>>, 30, "default")
        ELSE IntentTags(
                 Slice(Dedupe(FlatMap(ks, LAMBDA k : intentPatterns[k].categories)), 3),
                 Slice(Dedupe(FlatMap(ks, LAMBDA k : intentPatterns[k].secondary)), 4),
                 Slice(Dedupe(FlatMap(ks, LAMBDA k : intentPatterns[k].interests)), 5),
                 Min(90, 50 + matchCount * 10), "semantic")

\* The outcome of generateObject: it throws, or it returns an object with
\* the names the model proposes.
AiError == [kind |-> "error", primaryCategories |-> <<>>, secondaryCategories |-> <<>>,
            interests |-> <<>>]

AiObject(primary, secondary, interests) ==
    [kind |-> "object", primaryCategories |-> primary, secondaryCategories |-> secondary,
     interests |-> interests]

\* extractTagsWithAI without the check of the names against the taxonomy.
extractTagsWithAIUnvalidated(ai) ==
    IF ai.kind = "error" THEN Undefined
    ELSE IF Len(ai.primaryCategories) = 0 /\ Len(ai.secondaryCategories) = 0
            /\ Len(ai.interests) = 0
    THEN Undefined
    ELSE Some(IntentTags(ai.primaryCategories, ai.secondaryCategories, ai.interests,
                         75, "ai"))

\* extractTagsWithAI keeping every name that is a name of the taxonomy at
\* any level.
extractTagsWithAIAnyLevel(ai) ==
    IF ai.kind = "error" THEN Undefined
    ELSE LET names == PrimaryNames \cup SecondaryNames \cup InterestNames
             validPrimary == SelectSeqBy(ai.primaryCategories, names)
             validSecondary == SelectSeqBy(ai.secondaryCategories, names)
             validInterests == SelectSeqBy(ai.interests, names)
         IN  IF Len(validPrimary) = 0 /\ Len(validSecondary) = 0 /\ Len(validInterests) = 0
             THEN Undefined
             ELSE Some(IntentTags(validPrimary, validSecondary, validInterests, 75, "ai"))

\* extractTagsWithAI: <<>> is null.
extractTagsWithAI(ai) ==
    IF ai.kind = "error" THEN Undefined
    ELSE LET validPrimary == SelectSeqBy(ai.primaryCategories, PrimaryNames)
             validSecondary == SelectSeqBy(ai.secondaryCategories, SecondaryNames)
             validInterests == SelectSeqBy(ai.interests, InterestNames)
         IN  IF Len(validPrimary) = 0 /\ Len(validSecondary) = 0 /\ Len(validInterests) = 0
             THEN Undefined
             ELSE Some(IntentTags(validPrimary, validSecondary, validInterests, 75, "ai"))

IntentResult(tags, aiCalled) == [success |-> TRUE, tags |-> tags, aiCalled |-> aiCalled]

\* intentToTagsTool.execute asking the language model before the keywords.
IntentToTagsToolModelFirst(query, ai) ==
    LET semanticResult == analyzeIntentSemantically(LowerTokens(query))
        keywordMatches == FindMatchingTags(IntentExtractKeywords(query))
        aiResult == extractTagsWithAI(ai)
    IN  IF semanticResult.confidence >= 70 THEN IntentResult(semanticResult, FALSE)
        ELSE IF semanticResult.confidence < 50 /\ IsDefined(aiResult)
        THEN IntentResult(ValueOf(aiResult), TRUE)
        ELSE IF Len(keywordMatches.interests) > 0
                \/ Len(keywordMatches.secondaryCategories) > 0
        THEN IntentResult(IntentTags(keywordMatches.categories,
                                     keywordMatches.secondaryCategories,
                                     keywordMatches.interests,
                                     calculateConfidence(keywordMatches), "keyword"),
                          semanticResult.confidence < 50)
        ELSE IntentResult(semanticResult, semanticResult.confidence < 50)

IntentToTagsTool(query, ai) ==
    LET semanticResult == analyzeIntentSemantically(LowerTokens(query))
        keywordMatches == FindMatchingTags(IntentExtractKeywords(query))
        aiResult == extractTagsWithAI(ai)
    IN  IF semanticResult.confidence >= 70 THEN IntentResult(semanticResult, FALSE)
        ELSE IF Len(keywordMatches.interests) > 0
                \/ Len(keywordMatches.secondaryCategories) > 0
        THEN IntentResult(IntentTags(keywordMatches.categories,
                                     keywordMatches.secondaryCategories,
                                     keywordMatches.interests,
                                     calculateConfidence(keywordMatches), "keyword"),
                          FALSE)
        ELSE IF semanticResult.confidence < 50 /\ IsDefined(aiResult)
        THEN IntentResult(ValueOf(aiResult), TRUE)
        ELSE IntentResult(semanticResult, semanticResult.confidence < 50)

(***************************************************************************)
(* Inputs of the tag resolvers.                                            *)
(***************************************************************************)
TagPhrases ==
    {<<"edm">>, <<"marathon">>, <<"Yoga">>, <<"team", "outing">>, <<"birthday">>,
     <<"date", "night">>, <<"party">>, <<"jazz">>, <<"hello">>, <<"karaoke">>}

TagContexts == {Undefined, Some(<<"jazz">>)}

AiOutcomes ==
    {AiError,
     AiObject(<<>>, <<>>, <<>>),
     AiObject(<<"Parties">>, <<"Nightlife">>, <<"Raves">>),
     AiObject(<<"Live Music">>, <<"Music">>, <<"Comedy">>),
     AiObject(<<"Music", "Bogus">>, <<"Live Music">>, <<"Jazz/Blues", "Whatever">>)}

TagsCalls ==
    [tool : {"tags"}, query : Queries(TagPhrases, MaxTagPhrases), context : TagContexts]

IntentCalls ==
    [tool : {"intent-to-tags"}, query : Queries(TagPhrases, MaxTagPhrases), ai : AiOutcomes]

(***************************************************************************)
(* Budget resolver (budgetTool).                                           *)
(***************************************************************************)
BudgetPattern(patterns, type, maxPrice) ==
    [patterns |-> patterns, type |-> type, maxPrice |-> maxPrice]

BUDGET_PATTERNS ==
    << BudgetPattern(<<W(<<"free">>), W(<<"no", "cost">>), W(<<"no", "charge">>),
                       Ws({<<"zero", "cost">>, <<"zero", "price">>})>>,
                     "free", Some(0)),
       BudgetPattern(<<W(<<"cheap">>), W(<<"budget">>), W(<<"affordable">>),
                       W(<<"inexpensive">>), W(<<"low", "cost">>), WNum(<<"under">>),
                       WNum(<<"less", "than">>)>>,
                     "budget", Some(500)),
       BudgetPattern(<<W(<<"premium">>), W(<<"luxury">>), Hyph("high", "end"),
                       W(<<"exclusive">>), W(<<"fancy">>), W(<<"upscale">>),
                       W(<<"fine", "dining">>)>>,
                     "premium", Undefined),
       BudgetPattern(<<W(<<"student">>), W(<<"college">>), W(<<"broke">>),
                       W(<<"tight", "budget">>)>>,
                     "budget", Some(300)) >>

\* The five expressions of priceMatch, each as its matches from token i.
\* /under\s*R?\s*(\d+)/i, where R is the rupee sign
PriceUnderAt(q, i) == DigitsStep(q, Opt(q, StartLit(q, i, "under", FALSE), "₹"))

\* /less\s*than\s*R?\s*(\d+)/i
PriceLessThanAt(q, i) ==
    DigitsStep(q, Opt(q, Lit(q, StartLit(q, i, "less", FALSE), "than"), "₹"))

\* /below\s*R?\s*(\d+)/i
PriceBelowAt(q, i) == DigitsStep(q, Opt(q, StartLit(q, i, "below", FALSE), "₹"))

\* /max(?:imum)?\s*R?\s*(\d+)/i
PriceMaxAt(q, i) ==
    DigitsStep(q, Opt(q, OptNow(StartLit(q, i, "max", FALSE), "imum"), "₹"))

\* /budget\s*(?:of|is)?\s*R?\s*(\d+)/i
PriceBudgetAt(q, i) ==
    DigitsStep(q, Opt(q, OptAny(q, StartLit(q, i, "budget", FALSE), {"of", "is"}), "₹"))

\* priceMatch: the first of the five expressions that matches; "" is null.
PriceMatch(q) ==
    LET under == FirstCapture(q, LAMBDA i : PriceUnderAt(q, i))
        lessThan == FirstCapture(q, LAMBDA i : PriceLessThanAt(q, i))
        below == FirstCapture(q, LAMBDA i : PriceBelowAt(q, i))
        max == FirstCapture(q, LAMBDA i : PriceMaxAt(q, i))
    IN  IF under # "" THEN under
        ELSE IF lessThan # "" THEN lessThan
        ELSE IF below # "" THEN below
        ELSE IF max # "" THEN max
        ELSE FirstCapture(q, LAMBDA i : PriceBudgetAt(q, i))

BudgetResult(type, maxPrice, freeOnly, detected) ==
    [success |-> TRUE,
     budget |-> [type |-> type, maxPrice |-> maxPrice, freeOnly |-> freeOnly],
     detected |-> detected]

\* The explicit price mention, when there is one, without the return.
BudgetToolKeywordsOnly(query) ==
    LET q == LowerTokens(query)
        matched == MatchedIn(BUDGET_PATTERNS, q)
    IN  IF Len(matched) > 0
        THEN BudgetResult(BUDGET_PATTERNS[Head(matched)].type,
                          BUDGET_PATTERNS[Head(matched)].maxPrice,
                          BUDGET_PATTERNS[Head(matched)].type = "free", TRUE)
        ELSE BudgetResult("any", Undefined, FALSE, FALSE)

BudgetTool(query) ==
    LET q == LowerTokens(query)
        priceMatch == PriceMatch(q)
        maxPrice == ParseInt(priceMatch)
        matched == MatchedIn(BUDGET_PATTERNS, q)
    IN  IF priceMatch # ""
        THEN BudgetResult(IF maxPrice = 0 THEN "free" ELSE "budget", Some(maxPrice),
                          maxPrice = 0, TRUE)
        ELSE IF Len(matched) > 0
        THEN BudgetResult(BUDGET_PATTERNS[Head(matched)].type,
                          BUDGET_PATTERNS[Head(matched)].maxPrice,
                          BUDGET_PATTERNS[Head(matched)].type = "free", TRUE)
        ELSE BudgetResult("any", Undefined, FALSE, FALSE)

BudgetPhrases ==
    {<<"under", "200">>, <<"Below", "₹200">>, <<"less", "than", "₹", "0">>,
     <<"budget", "of", "300">>, <<"maximum", "0">>, <<"max", "₹300">>, <<"free">>,
     <<"cheap">>, <<"student">>, <<"premium">>, <<"high-end">>, <<"events">>}

BudgetCalls == [tool : {"budget"}, query : Queries(BudgetPhrases, MaxPhrases)]

(***************************************************************************)
(* Limit resolver (limitTool).                                             *)
(***************************************************************************)
LimitPattern(patterns, limit) == [patterns |-> patterns, limit |-> limit]

\* The qualitative entries of LIMIT_PATTERNS, in order.  The first entry of
\* the source (explicit numbers, limit -1) is skipped by the loop
\* (continue) and is handled by LimitExplicitMatch.
LIMIT_PATTERNS ==
    << LimitPattern(<<W(<<"just", "one">>), W(<<"the", "best">>), W(<<"single">>),
                      W(<<"one", "event">>)>>, 1),
       LimitPattern(<<W(<<"a", "few">>), W(<<"some">>), W(<<"couple">>)>>, 3),
       LimitPattern(<<W(<<"many">>), Ws({<<"lot", "of">>, <<"lots", "of">>}),
                      W(<<"several">>), W(<<"all">>)>>, 10) >>

\* /\btop\s*(\d+)\b/i
LimitTopAt(q, i) == AtBoundary(DigitsStep(q, StartLit(q, i, "top", TRUE)))

\* /\b(\d+)\s*(?:best|events?|options?|suggestions?)\b/i
LimitCountAt(q, i) ==
    AtBoundary(LitAny(q, StartDigits(q, i, TRUE),
                      {"best", "event", "events", "option", "options", "suggestion",
                       "suggestions"}))

\* /\bgive\s*(?:me\s*)?(\d+)\b/i and /\bshow\s*(?:me\s*)?(\d+)\b/i
LimitVerbAt(q, i, verb) ==
    AtBoundary(DigitsStep(q, Opt(q, StartLit(q, i, verb, TRUE), "me")))

\* explicitMatch: the first of the four expressions that matches.
LimitExplicitMatch(q) ==
    LET top == FirstCapture(q, LAMBDA i : LimitTopAt(q, i))
        count == FirstCapture(q, LAMBDA i : LimitCountAt(q, i))
        give == FirstCapture(q, LAMBDA i : LimitVerbAt(q, i, "give"))
    IN  IF top # "" THEN top
        ELSE IF count # "" THEN count
        ELSE IF give # "" THEN give
        ELSE FirstCapture(q, LAMBDA i : LimitVerbAt(q, i, "show"))

LimitResult(limit, branch) == [success |-> TRUE, limit |-> limit, branch |-> branch]

\* defaultLimit is 3 when the call gives none.
LimitTool(query, defaultLimit) ==
    LET q == LowerTokens(query)
        explicitMatch == LimitExplicitMatch(q)
        matched == MatchedIn(LIMIT_PATTERNS, q)
    IN  IF explicitMatch # ""
        THEN LimitResult(Min(Max(ParseInt(explicitMatch), 1), 20), "explicit")
        ELSE IF Len(matched) > 0
        THEN LimitResult(LIMIT_PATTERNS[Head(matched)].limit, "pattern")
        ELSE LimitResult(IF IsDefined(defaultLimit) THEN ValueOf(defaultLimit) ELSE 3,
                         "default")

LimitPhrases ==
    {<<"top", "5">>, <<"Top", "50">>, <<"0", "events">>, <<"give", "me", "25">>,
     <<"show", "7">>, <<"12", "best">>, <<"just", "one">>, <<"some">>, <<"all">>,
     <<"events">>, <<"top5">>, <<"3", "options">>}

LimitDefaults == {Undefined, Some(0), Some(3), Some(20), Some(50)}

LimitCalls ==
    [tool : {"limit"}, query : Queries(LimitPhrases, MaxLimitPhrases),
     defaultLimit : LimitDefaults]

(***************************************************************************)
(* Dates.  A Date is held by its local calendar day, counted from          *)
(* 1 January 1970, and the milliseconds since local midnight; months count *)
(* from 0 as in JavaScript.                                                *)
(***************************************************************************)
IsLeapYear(y) == (y % 4 = 0 /\ y % 100 # 0) \/ y % 400 = 0

DaysInMonth(y, m) ==
    IF m = 1 THEN (IF IsLeapYear(y) THEN 29 ELSE 28)
    ELSE IF m \in {3, 5, 8, 10} THEN 30 ELSE 31

\* The leap years before year y.
LeapsBefore(y) == ((y - 1) \div 4) - ((y - 1) \div 100) + ((y - 1) \div 400)

DaysBeforeYear(y) == 365 * (y - 1970) + LeapsBefore(y) - LeapsBefore(1970)

RECURSIVE DaysBeforeMonth(_, _)
DaysBeforeMonth(y, m) ==
    IF m = 0 THEN 0 ELSE DaysBeforeMonth(y, m - 1) + DaysInMonth(y, m - 1)

\* new Date(y, m, d) for a month in 0..11: a day beyond the month's end
\* runs on into the next months.
DayNumber(y, m, d) == DaysBeforeYear(y) + DaysBeforeMonth(y, m) + d - 1

\* The calendar fields of a day.
CivilFromDays(n) ==
    LET y == CHOOSE y \in (1970 + Min(n \div 366, n \div 365))
                           ..(1970 + Max(n \div 366, n \div 365) + 1) :
                 DaysBeforeYear(y) <= n /\ n < DaysBeforeYear(y + 1)
        inYear == n - DaysBeforeYear(y)
        m == CHOOSE m \in 0..11 :
                 /\ DaysBeforeMonth(y, m) <= inYear
                 /\ inYear < DaysBeforeMonth(y, m) + DaysInMonth(y, m)
    IN  [year |-> y, month |-> m, date |-> inYear - DaysBeforeMonth(y, m) + 1]

DateOf(day, ms) == [day |-> day, ms |-> ms]

\* new Date(year, month, day): years 0 to 99 are years of the 1900s.
NewDate(year, month, day) ==
    DateOf(DayNumber(IF year \in 0..99 THEN 1900 + year ELSE year, month, day), 0)

GetDate(date) == CivilFromDays(date.day).date
GetMonth(date) == CivilFromDays(date.day).month
GetFullYear(date) == CivilFromDays(date.day).year

\* Date.getDay: 0 is Sunday; 1 January 1970 was a Thursday.
GetDay(date) == (date.day + 4) % 7

\* Date.setDate(n): day n of the date's month, running on past its end.
SetDate(date, n) ==
    LET c == CivilFromDays(date.day)
    IN  DateOf(DayNumber(c.year, c.month, 1) + n - 1, date.ms)

\* Date.setHours(h, m, s, ms)
SetHours(date, h, m, sec, ms) == DateOf(date.day, ((h * 60 + m) * 60 + sec) * 1000 + ms)

\* String(n).padStart(width, "0")
RECURSIVE PadStart(_, _)
PadStart(str, width) == IF Len(str) >= width THEN str ELSE PadStart("0" \o str, width)

\* Date.toISOString for a time zone offsetMinutes east of UTC.
ToISOString(date, offsetMinutes) ==
    LET shifted == date.ms - offsetMinutes * 60000
        day == date.day + (shifted \div 86400000)
        ms == shifted % 86400000
        c == CivilFromDays(day)
    IN  PadStart(ToString(c.year), 4) \o "-" \o PadStart(ToString(c.month + 1), 2) \o "-"
        \o PadStart(ToString(c.date), 2) \o "T"
        \o PadStart(ToString(ms \div 3600000), 2) \o ":"
        \o PadStart(ToString((ms \div 60000) % 60), 2) \o ":"
        \o PadStart(ToString((ms \div 1000) % 60), 2) \o "."
        \o PadStart(ToString(ms % 1000), 3) \o "Z"

(***************************************************************************)
(* Temporal resolver (whenTool).                                           *)
(***************************************************************************)
getToday(now) == SetHours(now, 0, 0, 0, 0)

getTomorrow(now) == SetDate(getToday(now), GetDate(getToday(now)) + 1)

\* getThisWeekend with the days to Saturday counted as on a Sunday.
getThisWeekendNoWrap(now) ==
    LET today == getToday(now)
        saturday == SetDate(today, GetDate(today) + 6)
        sunday == SetHours(SetDate(saturday, GetDate(saturday) + 1), 23, 59, 59, 999)
    IN  [start |-> saturday, end |-> sunday]

getThisWeekend(now) ==
    LET today == getToday(now)
        dayOfWeek == GetDay(today)
        daysUntilSaturday == IF dayOfWeek = 0 THEN 6 ELSE 6 - dayOfWeek
        saturday == SetDate(today, GetDate(today) + daysUntilSaturday)
        sunday == SetHours(SetDate(saturday, GetDate(saturday) + 1), 23, 59, 59, 999)
    IN  [start |-> saturday, end |-> sunday]

getNextWeek(now) ==
    LET today == getToday(now)
        dayOfWeek == GetDay(today)
        daysUntilMonday == IF dayOfWeek = 0 THEN 1 ELSE 8 - dayOfWeek
        monday == SetDate(today, GetDate(today) + daysUntilMonday)
        sunday == SetHours(SetDate(monday, GetDate(monday) + 6), 23, 59, 59, 999)
    IN  [start |-> monday, end |-> sunday]

formatDateForAPI(date) ==
    PadStart(ToString(GetDate(date)), 2) \o "/" \o PadStart(ToString(GetMonth(date) + 1), 2)
    \o "/" \o ToString(GetFullYear(date))

Resolved(value, type, start, end) ==
    [value |-> value, type |-> type, start |-> start, end |-> end]

FormatRange(start, end) == formatDateForAPI(start) \o " - " \o formatDateForAPI(end)

\* The expressions of TEMPORAL_PATTERNS, in order, with the name of the
\* resolver of each entry.
TEMPORAL_PATTERNS ==
    << [patterns |-> <<W(<<"today">>), W(<<"tonight">>), W(<<"this", "evening">>)>>,
        resolver |-> "today"],
       [patterns |-> <<W(<<"tomorrow">>)>>, resolver |-> "tomorrow"],
       [patterns |-> <<Ws({<<"weekend">>, <<"this", "weekend">>}),
                       Ws({<<a, b, c>> : a \in {"sat", "saturday"}, b \in {"and", "&", "or"},
                                         c \in {"sun", "sunday"}})>>,
        resolver |-> "weekend"],
       [patterns |-> <<Ws({<<"next", "week">>, <<"next", "weekend">>})>>,
        resolver |-> "next week"],
       [patterns |-> <<W(<<"this", "week">>)>>, resolver |-> "this week"],
       [patterns |-> <<W(<<"this", "month">>)>>, resolver |-> "this month"] >>

\* The resolvers of TEMPORAL_PATTERNS.
Resolve(resolver, now) ==
    LET today == getToday(now)
        endOfWeek == SetHours(SetDate(today, GetDate(today) + (7 - GetDay(today))),
                              23, 59, 59, 999)
        endOfMonth == NewDate(GetFullYear(today), GetMonth(today) + 1, 0)
    IN  CASE resolver = "today" -> Resolved("today", "keyword", today, today)
          [] resolver = "tomorrow" ->
                 Resolved("tomorrow", "keyword", getTomorrow(now), getTomorrow(now))
          [] resolver = "weekend" ->
                 Resolved("weekend", "keyword", getThisWeekend(now).start,
                          getThisWeekend(now).end)
          [] resolver = "next week" ->
                 Resolved(FormatRange(getNextWeek(now).start, getNextWeek(now).end), "range",
                          getNextWeek(now).start, getNextWeek(now).end)
          [] resolver = "this week" ->
                 Resolved(FormatRange(today, endOfWeek), "range", today, endOfWeek)
          [] resolver = "this month" ->
                 Resolved(FormatRange(today, endOfMonth), "range", today, endOfMonth)

\* The first three letters of the month names, in the order of MONTHS, and
\* what may follow them in a name.
MonthNames ==
    <<"jan", "feb", "mar", "apr", "may", "jun", "jul", "aug", "sep", "oct", "nov", "dec">>

MonthTails ==
    <<{"uary"}, {"ruary"}, {"ch"}, {"il"}, {}, {"e"}, {"y"}, {"ust"}, {"t", "tember"},
      {"ober"}, {"ember"}, {"ember"}>>

\* The cursors cs with a list of captured values, empty so far.
NoCaptures(cs) == {Cursor(c.at, c.i, c.rest, <<>>) : c \in cs}

\* The cursors cs, each with one more captured value.
Capture(cs, v) == {Cursor(c.at, c.i, c.rest, Append(c.num, v)) : c \in cs}

\* (jan(?:uary)?|feb(?:ruary)?|...) at the cursors cs, the month's index
\* captured.
MonthAfter(cs, k) ==
    Capture(cs \cup UNION {OptNow(cs, tail) : tail \in MonthTails[k]}, k - 1)

\* (\d{n}) for the lengths n of lens, after a \s* when spaced.
DigitsOfLength(q, cs, lens, spaced) ==
    UNION {LET text == IF c.rest # "" THEN c.rest
                       ELSE IF spaced /\ c.i < Len(q) THEN q[c.i + 1] ELSE ""
               i == IF c.rest # "" THEN c.i ELSE c.i + 1
           IN  {Cursor(c.at, i, Drop(text, n), Append(c.num, SubSeq(text, 1, n))) :
                   n \in {n \in lens : n <= Len(text) /\ IsNumber(SubSeq(text, 1, n))}} :
           c \in cs}

\* \b(\d{1,2}) at the start of an expression.
DayStart(q, i) ==
    UNION {DigitsOfLength(q, {Cursor(p, i, Drop(q[i], p - 1), <<>>)}, {1, 2}, FALSE) :
           p \in {p \in 1..Len(q[i]) : IsDigit(CharAt(q[i], p)) /\ BoundaryBefore(q[i], p)}}

\* (?:st|nd|rd|th)?
OrdinalSuffix(cs) == cs \cup UNION {OptNow(cs, x) : x \in {"st", "nd", "rd", "th"}}

\* (?:\s*,?\s*(\d{4}))?\b
YearAndBoundary(q, cs) ==
    AtBoundary(cs \cup DigitsOfLength(q, Opt(q, cs, ","), {4}, TRUE))

\* "Month Day": /\b(month)\s*(\d{1,2})(?:st|nd|rd|th)?(?:\s*,?\s*(\d{4}))?\b/i
MonthDayAt(q, i) ==
    UNION {YearAndBoundary(q, OrdinalSuffix(
               DigitsOfLength(q, MonthAfter(NoCaptures(StartLit(q, i, MonthNames[k], TRUE)), k),
                              {1, 2}, TRUE))) :
           k \in DOMAIN MonthNames}

\* "Day Month": /\b(\d{1,2})(?:st|nd|rd|th)?\s*(month)(?:\s*,?\s*(\d{4}))?\b/i
DayMonthAt(q, i) ==
    UNION {YearAndBoundary(q, MonthAfter(Lit(q, OrdinalSuffix(DayStart(q, i)),
                                             MonthNames[k]), k)) :
           k \in DOMAIN MonthNames}

\* /\b(\d{1,2})[\/\-](\d{1,2})[\/\-](\d{4})\b/
DateSlashAt(q, i) ==
    LET separator(cs) == LitNow(cs, "/") \cup LitNow(cs, "-")
    IN  AtBoundary(DigitsOfLength(q, separator(DigitsOfLength(q, separator(DayStart(q, i)),
                                                              {1, 2}, FALSE)),
                                  {4}, FALSE))

\* String.match with several groups: the captures of the leftmost match,
\* the year's group taken when it can be; <<>> is null.
FirstCaptures(q, M(_)) ==
    LET at == {i \in DOMAIN q : M(i) # {}}
    IN  IF at = {} THEN <<>>
        ELSE LET first == CHOOSE i \in at : \A j \in at : i <= j
                 best == CHOOSE c \in M(first) :
                             \A d \in M(first) :
                                 c.at < d.at \/ (c.at = d.at /\ Len(c.num) >= Len(d.num))
             IN  best.num

\* The date parseAbsoluteDate makes of the captures of its three
\* expressions; <<>> is null.
AbsoluteDateOf(monthDay, dayMonth, dateSlash, now) ==
    LET yearOf(m) == IF Len(m) = 3 THEN ParseInt(m[3]) ELSE GetFullYear(now)
        dayOk(d) == ParseInt(d) >= 1 /\ ParseInt(d) <= 31
    IN  IF monthDay # <<>> /\ dayOk(monthDay[2])
        THEN Some(NewDate(yearOf(monthDay), monthDay[1], ParseInt(monthDay[2])))
        ELSE IF dayMonth # <<>> /\ dayOk(dayMonth[1])
        THEN Some(NewDate(yearOf(dayMonth), dayMonth[2], ParseInt(dayMonth[1])))
        ELSE IF dateSlash # <<>> /\ dayOk(dateSlash[1])
                /\ ParseInt(dateSlash[2]) - 1 >= 0 /\ ParseInt(dateSlash[2]) - 1 <= 11
        THEN Some(NewDate(ParseInt(dateSlash[3]), ParseInt(dateSlash[2]) - 1,
                          ParseInt(dateSlash[1])))
        ELSE Undefined

\* parseAbsoluteDate
parseAbsoluteDate(q, now) ==
    AbsoluteDateOf(FirstCaptures(q, LAMBDA i : MonthDayAt(q, i)),
                   FirstCaptures(q, LAMBDA i : DayMonthAt(q, i)),
                   FirstCaptures(q, LAMBDA i : DateSlashAt(q, i)), now)

WhenResult(value, type, start, end, offsetMinutes) ==
    [success |-> TRUE, detected |-> TRUE,
     when |-> Some([value |-> value, type |-> type,
                    startDate |-> ToISOString(start, offsetMinutes),
                    endDate |-> ToISOString(end, offsetMinutes)])]

\* What whenTool.execute returns, given the entries of TEMPORAL_PATTERNS that
\* match, what the first one's resolver gives and the absolute date parsed.
WhenOutcome(matched, r, absoluteDate, offsetMinutes) ==
    IF Len(matched) > 0
    THEN WhenResult(r.value, r.type, r.start, r.end, offsetMinutes)
    ELSE IF IsDefined(absoluteDate)
    THEN WhenResult(formatDateForAPI(ValueOf(absoluteDate)), "date",
                    ValueOf(absoluteDate), ValueOf(absoluteDate), offsetMinutes)
    ELSE [success |-> TRUE, detected |-> FALSE, when |-> Undefined]

\* The resolver of the first of the matching entries.
FirstResolver(matched) == TEMPORAL_PATTERNS[Head(matched)].resolver

\* whenTool.execute at the instant now of a clock offsetMinutes east of UTC.
WhenTool(query, now, offsetMinutes) ==
    WhenOutcome(MatchedIn(TEMPORAL_PATTERNS, LowerTokens(query)),
                Resolve(FirstResolver(MatchedIn(TEMPORAL_PATTERNS, LowerTokens(query))), now),
                parseAbsoluteDate(LowerTokens(query), now), offsetMinutes)

\* Inputs of the temporal resolver: the query, and the clock it reads.  The
\* days cover every weekday at the end of a year, of a February with 29
\* days, of a February with 28 days and of a month with 30 days.
WhenPhrases ==
    {<<"this", "weekend">>, <<"Weekend">>, <<"today">>, <<"tomorrow">>, <<"next", "week">>,
     <<"20th", "jan">>, <<"events">>}

WhenDays ==
    UNION {{DayNumber(2025, 11, 26) + k, DayNumber(2024, 1, 23) + k,
            DayNumber(2025, 1, 22) + k, DayNumber(2026, 3, 24) + k} : k \in 0..6}

WhenClocks ==
    [now : {DateOf(day, ms) : day \in WhenDays, ms \in {62100000, 86399999}},
     offsetMinutes : {330, 0 - 300}]

WhenCalls ==
    {[tool |-> "when", query |-> query, now |-> clock.now,
      offsetMinutes |-> clock.offsetMinutes] :
        query \in Queries(WhenPhrases, MaxWhenPhrases), clock \in WhenClocks}

(***************************************************************************)
(* Location resolver (coordinatesTool).  Latitudes and longitudes are in   *)
(* ten-thousandths of a degree.                                            *)
(***************************************************************************)
INDIAN_CITY_COORDINATES ==
    <<[name |-> "bangalore", lat |-> 129716, lng |-> 775946],
      [name |-> "bengaluru", lat |-> 129716, lng |-> 775946],
      [name |-> "mumbai", lat |-> 190760, lng |-> 728777],
      [name |-> "delhi", lat |-> 286139, lng |-> 772090],
      [name |-> "new delhi", lat |-> 286139, lng |-> 772090],
      [name |-> "chennai", lat |-> 130827, lng |-> 802707],
      [name |-> "hyderabad", lat |-> 173850, lng |-> 784867],
      [name |-> "pune", lat |-> 185204, lng |-> 738567],
      [name |-> "kolkata", lat |-> 225726, lng |-> 883639],
      [name |-> "ahmedabad", lat |-> 230225, lng |-> 725714],
      [name |-> "jaipur", lat |-> 269124, lng |-> 757873],
      [name |-> "lucknow", lat |-> 268467, lng |-> 809462],
      [name |-> "chandigarh", lat |-> 307333, lng |-> 767794],
      [name |-> "goa", lat |-> 152993, lng |-> 741240],
      [name |-> "kochi", lat |-> 99312, lng |-> 762673],
      [name |-> "gurgaon", lat |-> 284595, lng |-> 770266],
      [name |-> "gurugram", lat |-> 284595, lng |-> 770266],
      [name |-> "noida", lat |-> 285355, lng |-> 773910],
      [name |-> "koramangala", lat |-> 129352, lng |-> 776245],
      [name |-> "indiranagar", lat |-> 129784, lng |-> 776408],
      [name |-> "hsr layout", lat |-> 129081, lng |-> 776476],
      [name |-> "whitefield", lat |-> 129698, lng |-> 777499],
      [name |-> "bandra", lat |-> 190596, lng |-> 728295],
      [name |-> "andheri", lat |-> 191136, lng |-> 728697],
      [name |-> "aundh", lat |-> 185590, lng |-> 738076]>>

\* The names a lower-cased key finds on every object literal besides its own
\* keys: the properties inherited from Object.prototype whose names have no
\* capital letter.  Neither value has a lat or a lng.
InheritedKeys == {"constructor", "__proto__"}

\* String.trim of a string whose white space is the space.
RECURSIVE Trim(_)
Trim(s) ==
    IF Len(s) > 0 /\ CharAt(s, 1) = " " THEN Trim(SubSeq(s, 2, Len(s)))
    ELSE IF Len(s) > 0 /\ CharAt(s, Len(s)) = " " THEN Trim(SubSeq(s, 1, Len(s) - 1))
    ELSE s

\* INDIAN_CITY_COORDINATES[normalized] || null
getQuickCoordinates(location) ==
    LET normalized == Trim(ToLowerCase(location))
        own == {i \in DOMAIN INDIAN_CITY_COORDINATES :
                    INDIAN_CITY_COORDINATES[i].name = normalized}
    IN  IF own # {}
        THEN LET city == INDIAN_CITY_COORDINATES[CHOOSE i \in own : TRUE]
             IN  Some([lat |-> Some(city.lat), lng |-> Some(city.lng)])
        ELSE IF normalized \in InheritedKeys
        THEN Some([lat |-> Undefined, lng |-> Undefined])
        ELSE Undefined

\* How a call ends: with a value, or with an exception on its way up.
Completed(value) == [thrown |-> FALSE, value |-> value]
Thrown == [thrown |-> TRUE]

\* try { body } catch { return handler }
Catch(body, handler) == IF body.thrown THEN Completed(handler) ELSE body

\* The geocode request and the reading of its answer, given what the
\* service does.
GeocodeAttempt(outcome) ==
    CASE outcome.kind = "network-error" -> Thrown
      [] outcome.kind = "http-error" -> Completed(Undefined)
      [] outcome.kind = "bad-json" -> Thrown
      [] outcome.kind = "not-found" -> Completed(Undefined)
      [] outcome.kind = "no-results" -> Completed(Undefined)
      [] outcome.kind = "no-geometry" -> Thrown
      [] outcome.kind = "match" ->
            Completed(Some([lat |-> outcome.lat, lng |-> outcome.lng,
                            displayName |-> outcome.formatted_address,
                            confidence |-> IF outcome.location_type = "ROOFTOP"
                                           THEN 100 ELSE 85]))

geocodeWithGoogle(apiKey, outcome) ==
    IF ~apiKey THEN Completed(Undefined) ELSE Catch(GeocodeAttempt(outcome), Undefined)

IsLetter(c) == \E i \in DOMAIN LowerLetters : LowerLetters[i] = LowerChar(c)

\* The longest run of letters a string starts with.
RECURSIVE LettersPrefix(_)
LettersPrefix(s) ==
    IF Len(s) > 0 /\ IsLetter(CharAt(s, 1))
    THEN CharAt(s, 1) \o LettersPrefix(SubSeq(s, 2, Len(s)))
    ELSE ""

\* Array.join(" ")
RECURSIVE JoinWords(_)
JoinWords(ws) ==
    IF Len(ws) = 0 THEN ""
    ELSE IF Len(ws) = 1 THEN ws[1]
    ELSE ws[1] \o " " \o JoinWords(Tail(ws))

\* ([a-zA-Z\s]+?) from token first on, token j being the next to take: the
\* shortest run of letters and spaces that is followed by a space and one of
\* the stop words or, where the expression has them, by "?" or the end of
\* the text.  The result is trimmed.
RECURSIVE LocationCapture(_, _, _, _, _)
LocationCapture(q, first, j, stops, ends) ==
    IF j > Len(q)
    THEN (IF ends THEN Some(JoinWords(SubSeq(q, first, j - 1))) ELSE Undefined)
    ELSE IF j > first /\ \E stop \in stops : StartsWith(ToLowerCase(q[j]), stop)
    THEN Some(JoinWords(SubSeq(q, first, j - 1)))
    ELSE LET letters == LettersPrefix(q[j])
         IN  IF letters = q[j] THEN LocationCapture(q, first, j + 1, stops, ends)
             ELSE IF /\ ends
                     /\ CharAt(q[j], Len(letters) + 1) = "?"
                     /\ (Len(letters) > 0 \/ j > first)
             THEN Some(JoinWords(SubSeq(q, first, j - 1)
                                 \o (IF letters = "" THEN <<>> ELSE <<letters>>)))
             ELSE Undefined

\* The first element of a row of optional values that is defined, else
\* undefined.
FirstDefined(options) ==
    LET defined == {k \in DOMAIN options : IsDefined(options[k])}
    IN  IF defined = {} THEN Undefined
        ELSE options[CHOOSE k \in defined : \A m \in defined : k <= m]

\* /\bword\s+([a-zA-Z\s]+?)(?:\s+stop|...|\?|$)/i
LocationAfter(q, word, stops) ==
    FirstDefined([i \in 1..(Len(q) - 1) |->
                     IF EndsAsWord(ToLowerCase(q[i]), word)
                     THEN LocationCapture(q, i + 1, i + 1, stops, TRUE)
                     ELSE Undefined])

\* /^([a-zA-Z\s]+?)\s+(?:events?|concerts?|shows?)/i
LocationBefore(q) == LocationCapture(q, 1, 1, {"event", "concert", "show"}, FALSE)

locationPatterns(q) ==
    <<LocationAfter(q, "in", {"for", "this", "next", "today", "tomorrow"}),
      LocationAfter(q, "near", {"for", "this", "next"}),
      LocationAfter(q, "around", {"for", "this"}),
      LocationBefore(q)>>

KnownNeighborhoods ==
    {"koramangala", "indiranagar", "hsr layout", "whitefield", "bandra", "andheri", "aundh"}

CoordinatesResult(success, coordinates, location, isNeighborhood, confidence, error) ==
    [success |-> success, coordinates |-> coordinates, location |-> location,
     isNeighborhood |-> isNeighborhood, confidence |-> confidence, error |-> error]

\* The first city of the table that the lower-cased text contains, "" when
\* it contains none.
FirstCityIn(queryLower) ==
    LET cities == {i \in DOMAIN INDIAN_CITY_COORDINATES :
                       Includes(queryLower, INDIAN_CITY_COORDINATES[i].name)}
    IN  IF cities = {} THEN ""
        ELSE INDIAN_CITY_COORDINATES[CHOOSE i \in cities : \A k \in cities : i <= k].name

\* The candidate, given the match of the first expression that matches.
CandidateOf(match, queryLower, defaultCity) ==
    IF IsDefined(match) /\ Trim(ValueOf(match)) # "" THEN Trim(ValueOf(match))
    ELSE IF FirstCityIn(queryLower) # "" THEN FirstCityIn(queryLower)
    ELSE IF IsDefined(defaultCity) THEN ValueOf(defaultCity)
    ELSE ""

\* The location candidate of coordinatesTool.execute, "" when it has none:
\* the first expression that matches, else the first city of the table the
\* text contains, else the default city.
DetectedLocation(query, defaultCity) ==
    CandidateOf(FirstDefined(locationPatterns(query)), ToLowerCase(JoinWords(query)),
                defaultCity)

\* What coordinatesTool.execute returns for its candidate, the static
\* table's answer and the geocode call's completion.
CoordinatesOutcome(detectedLocation, isNeighborhood, quickResult, googleResult) ==
    IF detectedLocation = ""
    THEN Completed(CoordinatesResult(FALSE, Undefined, Undefined, FALSE, 0,
                       Some("Could not detect any location in the query")))
    ELSE IF IsDefined(quickResult)
    THEN Completed(CoordinatesResult(TRUE,
                       Some([latitude |-> ValueOf(quickResult).lat,
                             longitude |-> ValueOf(quickResult).lng]),
                       Some(detectedLocation), isNeighborhood, 95, Undefined))
    ELSE IF googleResult.thrown THEN Thrown
    ELSE IF IsDefined(googleResult.value)
    THEN Completed(CoordinatesResult(TRUE,
                       Some([latitude |-> Some(ValueOf(googleResult.value).lat),
                             longitude |-> Some(ValueOf(googleResult.value).lng)]),
                       Some(ValueOf(googleResult.value).displayName), isNeighborhood,
                       ValueOf(googleResult.value).confidence, Undefined))
    ELSE Completed(CoordinatesResult(FALSE, Undefined, Some(detectedLocation), FALSE, 0,
                       Some("Could not find coordinates for \"" \o detectedLocation
                            \o "\"")))

\* coordinatesTool.execute from the candidate on, without the look-up of
\* the query among the known neighborhoods.
CoordinatesForNoNeighborhood(detectedLocation, queryLower, apiKey, outcome) ==
    CoordinatesOutcome(detectedLocation, FALSE, getQuickCoordinates(detectedLocation),
                       geocodeWithGoogle(apiKey, outcome))

\* coordinatesTool.execute from the candidate on.
CoordinatesFor(detectedLocation, queryLower, apiKey, outcome) ==
    CoordinatesOutcome(detectedLocation,
                       \E n \in KnownNeighborhoods : Includes(queryLower, n),
                       getQuickCoordinates(detectedLocation),
                       geocodeWithGoogle(apiKey, outcome))

\* coordinatesTool.execute: the query is its row of tokens, apiKey tells
\* whether GOOGLE_MAPS_API_KEY is set, outcome what the geocode service does.
CoordinatesTool(query, defaultCity, apiKey, outcome) ==
    CoordinatesFor(DetectedLocation(query, defaultCity), ToLowerCase(JoinWords(query)),
                   apiKey, outcome)

\* Inputs of the location resolver.
LocationPhrases ==
    {<<"events", "in">>, <<"Pune">>, <<"in", "Atlantis">>, <<"constructor">>,
     <<"near", "Bandra?">>, <<"this", "weekend">>, <<"HSR", "Layout,">>, <<"concerts">>}

LocationDefaults == {Undefined, Some("Pune"), Some(" Atlantis ")}

GeocodeOutcomes ==
    {[kind |-> kind] : kind \in {"network-error", "http-error", "bad-json", "not-found",
                                 "no-results", "no-geometry"}}
    \cup {[kind |-> "match", lat |-> 151234, lng |-> 739876,
           formatted_address |-> "Atlantis, Maharashtra, India",
           location_type |-> type] : type \in {"ROOFTOP", "APPROXIMATE"}}

CoordinatesCalls ==
    [tool : {"coordinates"}, query : Queries(LocationPhrases, MaxLocationPhrases),
     defaultCity : LocationDefaults, apiKey : BOOLEAN, outcome : GeocodeOutcomes]

(***************************************************************************)
(* Event retrieval (eventSearchTool).                                      *)
(***************************************************************************)
\* a || b for strings: the empty string is falsy.
OrElse(a, b) == IF a # "" THEN a ELSE b

\* The result made of one event of the catalog's answer: of its fields,
\* the id and those the tag filter and the ranking read.
MapEvent(event) ==
    [id |-> event.id,
     name |-> OrElse(event.title, "Unnamed Event"),
     description |-> OrElse(event.description, "No description available"),
     category |-> IF IsDefined(event.primaryCategory) /\ ValueOf(event.primaryCategory) # ""
                  THEN ValueOf(event.primaryCategory)
                  ELSE IF IsDefined(event.category) /\ ValueOf(event.category) # ""
                  THEN ValueOf(event.category)
                  ELSE IF Len(event.tags) > 0 THEN event.tags[1] ELSE "General",
     tags |-> event.tags]

Contains(a, b) == Includes(ToLowerCase(a), ToLowerCase(b))

\* The tag filter looking at the event's tags only.
MatchesTagsOnly(event, tagsToUse) ==
    \E f \in DOMAIN tagsToUse : \E t \in DOMAIN event.tags :
        Contains(event.tags[t], tagsToUse[f]) \/ Contains(tagsToUse[f], event.tags[t])

\* The predicate of events.filter: some event tag, or the category, contains
\* a filter tag or is contained in one, letter case aside.
MatchesTags(event, tagsToUse) ==
    \/ \E f \in DOMAIN tagsToUse : \E t \in DOMAIN event.tags :
           Contains(event.tags[t], tagsToUse[f]) \/ Contains(tagsToUse[f], event.tags[t])
    \/ \E f \in DOMAIN tagsToUse :
           Contains(event.category, tagsToUse[f]) \/ Contains(tagsToUse[f], event.category)

FilterByTags(events, tagsToUse) ==
    IF Len(tagsToUse) > 0
    THEN SelectSeq(events, LAMBDA event : MatchesTags(event, tagsToUse))
    ELSE events

RECURSIVE calculateRelevanceScore(_, _)
calculateRelevanceScore(event, queryWords) ==
    IF Len(queryWords) = 0 THEN 0
    ELSE LET word == Head(queryWords)
             rest == calculateRelevanceScore(event, Tail(queryWords))
         IN  IF Len(word) < 3 THEN rest
             ELSE rest
                  + (IF Includes(ToLowerCase(event.name), word) THEN 3 ELSE 0)
                  + (IF \E t \in DOMAIN event.tags :
                            Includes(ToLowerCase(event.tags[t]), word)
                     THEN 2 ELSE 0)
                  + (IF Includes(ToLowerCase(event.description), word) THEN 1 ELSE 0)

\* Array.sort by (a, b) => scoreB - scoreA: the higher score first, events
\* of one score in the order they had.
RECURSIVE SortByScore(_, _)
SortByScore(events, queryWords) ==
    IF Len(events) = 0 THEN <<>>
    ELSE LET sorted == SortByScore(SubSeq(events, 1, Len(events) - 1), queryWords)
             last == events[Len(events)]
             ahead == {i \in DOMAIN sorted :
                           calculateRelevanceScore(sorted[i], queryWords)
                               >= calculateRelevanceScore(last, queryWords)}
         IN  SubSeq(sorted, 1, Cardinality(ahead)) \o <<last>>
             \o SubSeq(sorted, Cardinality(ahead) + 1, Len(sorted))

\* rankByRelevance with a sort that turns round the events of one score.
rankByRelevanceUnstable(events, query) ==
    SortByScore([i \in 1..Len(events) |-> events[Len(events) + 1 - i]], LowerTokens(query))

\* The query is its row of tokens: split(/\s+/) of the lower-cased text.
rankByRelevance(events, query) == SortByScore(events, LowerTokens(query))

\* The cities of the table of the geocoding module, which event retrieval
\* imports; their coordinates are those of the table above.
GeocodingCities ==
    {"bangalore", "bengaluru", "mumbai", "delhi", "new delhi", "hyderabad", "chennai",
     "kolkata", "pune", "ahmedabad", "jaipur", "goa", "kochi", "gurgaon", "gurugram",
     "noida", "chandigarh"}

\* getQuickCoordinates of the geocoding module.
GeocodingQuickCoordinates(city) ==
    IF Trim(ToLowerCase(city)) \in GeocodingCities \cup InheritedKeys
    THEN getQuickCoordinates(city)
    ELSE Undefined

\* Step 1 of eventSearchTool.execute.
SearchCoords(city, coordinates) ==
    IF IsDefined(coordinates)
    THEN Some([lat |-> Some(ValueOf(coordinates).latitude),
               lng |-> Some(ValueOf(coordinates).longitude)])
    ELSE IF IsDefined(city) /\ ValueOf(city) # ""
    THEN (IF IsDefined(GeocodingQuickCoordinates(ValueOf(city)))
          THEN GeocodingQuickCoordinates(ValueOf(city))
          ELSE GeocodingQuickCoordinates("bangalore"))
    ELSE Undefined

\* Step 2: the request for the catalog.
SearchRequest(searchCoords, tagsToUse, radiusKm, limit, offset, sortBy) ==
    [location |-> searchCoords,
     radius |-> IF IsDefined(searchCoords) THEN Some(radiusKm) ELSE Undefined,
     sortBy |-> IF ~IsDefined(searchCoords) THEN Undefined
                ELSE IF sortBy = "distance" THEN Some("distance") ELSE Some("date"),
     limit |-> IF Len(tagsToUse) > 0 THEN Max(limit * 5, 50) ELSE limit,
     offset |-> offset]

\* The events of an answer of the catalog that was read as JSON.
RawEvents(response) ==
    IF response.shape \in {"array", "events", "data"} THEN response.events ELSE <<>>

\* The success result with every filtered event counted, returned or not,
\* replaced by the count of the returned ones.
SearchSuccessCountingReturned(events, rankedEvents, limit, searchCoords, radiusKm, tagsToUse) ==
    [success |-> TRUE, events |-> Slice(rankedEvents, limit),
     totalFound |-> Len(Slice(rankedEvents, limit)),
     searchParams |-> [coordinates |-> searchCoords, radiusKm |-> radiusKm,
                       tagsUsed |-> tagsToUse],
     error |-> Undefined]

SearchSuccess(events, rankedEvents, limit, searchCoords, radiusKm, tagsToUse) ==
    [success |-> TRUE, events |-> Slice(rankedEvents, limit),
     totalFound |-> Len(events),
     searchParams |-> [coordinates |-> searchCoords, radiusKm |-> radiusKm,
                       tagsUsed |-> tagsToUse],
     error |-> Undefined]

\* The failure result without the error message.
SearchFailureWithoutError(message, radiusKm, tagsToUse) ==
    [success |-> FALSE, events |-> <<>>, totalFound |-> 0,
     searchParams |-> [coordinates |-> Undefined, radiusKm |-> radiusKm,
                       tagsUsed |-> tagsToUse],
     error |-> Undefined]

SearchFailure(message, radiusKm, tagsToUse) ==
    [success |-> FALSE, events |-> <<>>, totalFound |-> 0,
     searchParams |-> [coordinates |-> Undefined, radiusKm |-> radiusKm,
                       tagsUsed |-> tagsToUse],
     error |-> Some(message)]

ThrownWith(message) == [thrown |-> TRUE, message |-> message]

\* eventSearchTool.execute, given what the catalog answers: the result and
\* the requests made.
EventSearchTool(city, coordinates, query, tags, radiusKm, limit, offset, sortBy, response) ==
    LET searchCoords == SearchCoords(city, coordinates)
        tagsToUse == IF IsDefined(tags) THEN ValueOf(tags) ELSE <<>>
        request == SearchRequest(searchCoords, tagsToUse, radiusKm, limit, offset, sortBy)
        mapped == [i \in DOMAIN RawEvents(response) |-> MapEvent(RawEvents(response)[i])]
        events == FilterByTags(mapped, tagsToUse)
        rankedEvents == IF IsDefined(query) /\ Len(ValueOf(query)) > 0 /\ Len(events) > 0
                        THEN rankByRelevance(events, ValueOf(query))
                        ELSE events
        body == CASE response.kind = "network-error" -> ThrownWith("fetch failed")
                  [] response.kind = "http-error" ->
                        ThrownWith("Happenings API error: " \o ToString(response.status)
                                   \o " " \o response.statusText)
                  [] response.kind = "bad-json" -> ThrownWith("Unexpected token")
                  [] response.kind = "ok" ->
                        Completed(SearchSuccess(events, rankedEvents, limit, searchCoords,
                                                radiusKm, tagsToUse))
    IN  [value |-> IF body.thrown THEN SearchFailure(body.message, radiusKm, tagsToUse)
                   ELSE body.value,
         requests |-> <<request>>]

DEFAULT_RADIUS_KM == 50
DEFAULT_LIMIT == 10

\* Inputs of event retrieval: the search, and the answer of the catalog.
EventPool ==
    {[id |-> "e1", title |-> "Jazz Night", description |-> "Live jazz by the lake",
      tags |-> <<"Music", "Jazz/Blues">>, primaryCategory |-> Some("Music"),
      category |-> Undefined],
     [id |-> "e2", title |-> "Food Walk", description |-> "",
      tags |-> <<"Food & Drink">>, primaryCategory |-> Undefined, category |-> Undefined],
     [id |-> "e3", title |-> "Rock Night", description |-> "Open air music",
      tags |-> <<"Rock">>, primaryCategory |-> Undefined,
      category |-> Some("MUSIC FESTIVALS")],
     [id |-> "e4", title |-> "", description |-> "Poetry evening",
      tags |-> <<>>, primaryCategory |-> Undefined, category |-> Undefined]}

\* The rows of at most n different events.
EventRows(n) ==
    {row \in UNION {[1..k -> EventPool] : k \in 0..n} :
         \A i, j \in DOMAIN row : i # j => row[i] # row[j]}

CatalogResponses ==
    {[kind |-> "ok", shape |-> "events", events |-> row] : row \in EventRows(MaxEvents)}
    \cup {[kind |-> "ok", shape |-> shape, events |-> row] :
              shape \in {"array", "data", "none"}, row \in EventRows(1)}
    \cup {[kind |-> "http-error", status |-> 500, statusText |-> "Internal Server Error"],
          [kind |-> "network-error"], [kind |-> "bad-json"]}

SearchPlaces ==
    {[city |-> Undefined, coordinates |-> Undefined, sortBy |-> "distance"],
     [city |-> Some("Atlantis"), coordinates |-> Undefined, sortBy |-> "relevance"],
     [city |-> Some("Pune"),
      coordinates |-> Some([latitude |-> 190760, longitude |-> 728777]),
      sortBy |-> "distance"]}

SearchTags ==
    {Undefined, Some(<<>>), Some(<<"Music">>), Some(<<"Live Music">>),
     Some(<<"jazz", "Food">>)}

SearchQueries ==
    {Undefined, Some(<<>>), Some(<<"Night", "music">>), Some(<<"in", "Poetry">>)}

EventSearchCalls ==
    {[tool |-> "event-search", city |-> place.city, coordinates |-> place.coordinates,
      query |-> query, tags |-> tags, radiusKm |-> DEFAULT_RADIUS_KM, limit |-> limit,
      offset |-> 0, sortBy |-> place.sortBy, response |-> response] :
        place \in SearchPlaces, query \in SearchQueries, tags \in SearchTags,
        limit \in {0, 1, 2, DEFAULT_LIMIT}, response \in CatalogResponses}

(***************************************************************************)
(* The state machine.                                                      *)
(***************************************************************************)
Pending == [status |-> "pending"]

Return(value) == [status |-> "returned", value |-> value]

InitOf(calls) == call \in calls /\ result = Pending

RadiusExecute ==
    /\ call.tool = "radius"
    /\ result = Pending
    /\ result' = Return(RadiusTool(call.query, call.detectedLocation, call.isNeighborhood))
    /\ UNCHANGED call

TagsExecute ==
    /\ call.tool = "tags"
    /\ result = Pending
    /\ result' = Return(TagsTool(call.query, call.context))
    /\ UNCHANGED call

IntentToTagsExecute ==
    /\ call.tool = "intent-to-tags"
    /\ result = Pending
    /\ result' = Return(IntentToTagsTool(call.query, call.ai))
    /\ UNCHANGED call

BudgetExecute ==
    /\ call.tool = "budget"
    /\ result = Pending
    /\ result' = Return(BudgetTool(call.query))
    /\ UNCHANGED call

LimitExecute ==
    /\ call.tool = "limit"
    /\ result = Pending
    /\ result' = Return(LimitTool(call.query, call.defaultLimit))
    /\ UNCHANGED call

WhenExecute ==
    /\ call.tool = "when"
    /\ result = Pending
    /\ result' = Return(WhenTool(call.query, call.now, call.offsetMinutes))
    /\ UNCHANGED call

\* An exception that leaves a tool's execute.
Throw == [status |-> "thrown"]

CoordinatesExecute ==
    /\ call.tool = "coordinates"
    /\ result = Pending
    /\ LET completion == CoordinatesTool(call.query, call.defaultCity, call.apiKey,
                                         call.outcome)
       IN  result' = IF completion.thrown THEN Throw ELSE Return(completion.value)
    /\ UNCHANGED call

EventSearchExecute ==
    /\ call.tool = "event-search"
    /\ result = Pending
    /\ LET done == EventSearchTool(call.city, call.coordinates, call.query, call.tags,
                                   call.radiusKm, call.limit, call.offset, call.sortBy,
                                   call.response)
       IN  result' = [status |-> "returned", value |-> done.value,
                      requests |-> done.requests]
    /\ UNCHANGED call

(***************************************************************************)
(* Several invocations of the resolvers in one process.  execute of        *)
(* radiusTool, tagsTool, budgetTool, limitTool and whenTool awaits         *)
(* nothing, so an invocation runs from its start to its return without    *)
(* another one in between, and invocations that are in flight together    *)
(* run in any order.  What invocations share are the regular expressions  *)
(* of the pattern tables of the modules (AREA_CLASSIFICATIONS,            *)
(* SEMANTIC_PATTERNS, BUDGET_PATTERNS, LIMIT_PATTERNS, TEMPORAL_PATTERNS): *)
(* RegExp.prototype.test reads and writes the lastIndex of an expression   *)
(* with the flag g or y and leaves it alone otherwise.  lastIndex is kept  *)
(* per table, in tokens.                                                   *)
(***************************************************************************)
MaxInvocations == 2

\* The flags of the expressions of a pattern table with g added.
PatternFlagsGlobal == "gi"

\* The flags of every expression of the pattern tables.
PatternFlags == "i"

UsesLastIndex(flags) == Includes(flags, "g") \/ Includes(flags, "y")

ResolverTools == {"radius", "tags", "budget", "limit", "when"}

\* What execute of the invocation's tool returns on the invocation's input.
ResolverResult(c) ==
    CASE c.tool = "radius" -> RadiusTool(c.query, c.detectedLocation, c.isNeighborhood)
      [] c.tool = "tags" -> TagsTool(c.query, c.context)
      [] c.tool = "budget" -> BudgetTool(c.query)
      [] c.tool = "limit" -> LimitTool(c.query, c.defaultLimit)
      [] c.tool = "when" -> WhenTool(c.query, c.now, c.offsetMinutes)

\* Where a test of the invocation's text starts: at lastIndex with the flag g
\* (or y), at the start of the text without.
ResumedAt(c, lastIndex) ==
    IF UsesLastIndex(PatternFlags) THEN Min(lastIndex[c.tool], Len(c.query)) ELSE 0

\* The texts the invocation's outcome depends on: the text from where the
\* test starts and, to tell a match from none, the empty text.
TestedTexts(c, lastIndex) ==
    IF UsesLastIndex(PatternFlags)
    THEN {Drop(c.query, ResumedAt(c, lastIndex)), <<>>}
    ELSE {c.query}

\* The value and the lastIndex an invocation leaves, given the tool's result
\* on each tested text.  With the flag g a test leaves the end of the text
\* after a match and 0 after none.
Invoked(c, lastIndex, results) ==
    [value |-> results[Drop(c.query, ResumedAt(c, lastIndex))],
     lastIndex |->
         IF UsesLastIndex(PatternFlags)
         THEN [lastIndex EXCEPT ![c.tool] =
                   IF results[Drop(c.query, ResumedAt(c, lastIndex))] = results[<<>>]
                   THEN 0 ELSE Len(c.query)]
         ELSE lastIndex]

\* One invocation, given the lastIndex the earlier ones left.
Invoke(c, lastIndex) ==
    Invoked(c, lastIndex,
            [text \in TestedTexts(c, lastIndex) |->
                 ResolverResult([c EXCEPT !.query = text])])

\* Inputs: the invocations that may be in flight together.
InvocationPool ==
    [tool : {"radius"}, query : {<<"events", "nearby">>, <<"within", "7", "km">>},
     detectedLocation : {Some("Koramangala")}, isNeighborhood : {Undefined}]
    \cup [tool : {"tags"}, query : {<<"jazz", "night">>, <<"hello">>},
          context : {Undefined}]
    \cup [tool : {"budget"}, query : {<<"free", "events">>, <<"under", "500">>}]
    \cup [tool : {"limit"}, query : {<<"just", "one", "pick">>, <<"top", "5">>},
          defaultLimit : {Undefined}]
    \cup [tool : {"when"}, query : {<<"this", "weekend">>, <<"tomorrow">>},
          now : {DateOf(DayNumber(2025, 11, 28), 86399999)}, offsetMinutes : {330}]

InvocationCalls ==
    [tool : {"invocations"},
     calls : UNION {[1..n -> InvocationPool] : n \in 1..MaxInvocations}]

\* No invocation has run: every lastIndex is 0, as the module leaves it.
InvocationsStarted(calls) ==
    [status |-> "running", results |-> [i \in DOMAIN calls |-> Pending],
     lastIndex |-> [t \in ResolverTools |-> 0]]

InitInvocations == call \in InvocationCalls /\ result = InvocationsStarted(call.calls)

\* The state after invocation i has returned done.
InvocationReturned(calls, state, i, done) ==
    [status |-> IF \A j \in DOMAIN calls \ {i} : state.results[j] # Pending
                THEN "returned" ELSE "running",
     results |-> [state.results EXCEPT ![i] = Return(done.value)],
     lastIndex |-> done.lastIndex]

\* Any of the invocations in flight runs, from its start to its return.
InvocationExecute ==
    /\ call.tool = "invocations"
    /\ \E i \in DOMAIN call.calls :
          /\ result.results[i] = Pending
          /\ result' = InvocationReturned(call.calls, result, i,
                                         Invoke(call.calls[i], result.lastIndex))
    /\ UNCHANGED call

(***************************************************************************)
(* The approval workflow: the run of socialSniperWorkflow from its branch  *)
(* on, the notification tool, the approval store and the webhooks.  The    *)
(* call holds the environment and the number of drafts generateResponse    *)
(* produced; the result holds what the run and the webhooks have done:     *)
(*   pc             where the run is: "branch", "auto-post",               *)
(*                  "send-approval" or "done"                              *)
(*   next           the draft the step's loop is at                        *)
(*   store          the rows of draft_approvals, in the order of insertion *)
(*   notifications  the approval notifications sent, in order              *)
(*   posts          the replies posted to the platform, in order, each     *)
(*                  with the request that made it and the hour it was made *)
(*   requests       the number of webhook requests handled                 *)
(* A row of the store also keeps, as history, the commands that were       *)
(* handled for its notification id.                                        *)
(* A step of the run is one pass of its loop: the loop awaits the          *)
(* platform or the notification, and webhooks are handled in between.      *)
(***************************************************************************)
MaxDrafts == 3
MaxPendingDrafts == 2
MaxRequests == 2

\* The hours, since the run began, at which a reply may be posted.
Hours == {0, 1}

\* The post a draft answers and the response generated for it.
PostOf(i) == "post" \o ToString(i)
DraftResponseOf(i) == "draft for post" \o ToString(i)

\* crypto.randomBytes(16).toString("hex"): an id no stored draft has, or,
\* by chance, the id of a stored draft.
FreshNotificationId(store) == "id" \o ToString(Len(store) + 1)
RandomNotificationIds(store) ==
    {FreshNotificationId(store)} \cup {store[i].notificationId : i \in DOMAIN store}

\* The condition of the auto-post branch without the comparison with "true".
AutoApprovedUnlessFalse(autoApprove) == autoApprove # "false"

\* The condition of the auto-post branch; the other branch has its negation.
AutoApproved(autoApprove) == autoApprove = "true"

\* startWebhookServer listens unless AUTO_APPROVE is "true" (WEBHOOK_ENABLED
\* is left at its default).
WebhookServerStarted(autoApprove) == ~(autoApprove = "true")

\* ApprovalStore.saveDraft: the INSERT fails on a notification_id that a row
\* has already (UNIQUE).
saveDraft(store, notificationId, postId, draftResponse, status) ==
    IF \E i \in DOMAIN store : store[i].notificationId = notificationId
    THEN Thrown
    ELSE Completed(Append(store, [notificationId |-> notificationId, postId |-> postId,
                                  draftResponse |-> draftResponse, status |-> status,
                                  editedResponse |-> Undefined, handled |-> {}]))

\* ApprovalStore.getDraftByNotificationId: <<>> is null.
getDraftByNotificationId(store, notificationId) ==
    LET rows == SelectSeq(store, LAMBDA row : row.notificationId = notificationId)
    IN  IF Len(rows) = 0 THEN Undefined ELSE Some(Head(rows))

UpdateStatus(store, notificationId, status) ==
    [i \in DOMAIN store |->
         IF store[i].notificationId = notificationId
         THEN [store[i] EXCEPT !.status = status] ELSE store[i]]

approveDraft(store, notificationId) == UpdateStatus(store, notificationId, "approved")

rejectDraft(store, notificationId) == UpdateStatus(store, notificationId, "rejected")

editDraft(store, notificationId, editedResponse) ==
    [i \in DOMAIN store |->
         IF store[i].notificationId = notificationId
         THEN [store[i] EXCEPT !.status = "edited",
                               !.editedResponse = Some(editedResponse)]
         ELSE store[i]]

\* rowToDraft: an empty edited_response reads as undefined.
rowToDraft(row) ==
    [row EXCEPT !.editedResponse = IF row.editedResponse = Some("") THEN Undefined
                                   ELSE row.editedResponse]

\* History: a command was handled for the notification id.
Handled(state, notificationId, command) ==
    [state EXCEPT !.store =
         [i \in DOMAIN @ |->
              IF @[i].notificationId = notificationId
              THEN [@[i] EXCEPT !.handled = @ \cup {command}] ELSE @[i]]]

\* postToPlatformTool.execute: the reply is posted, or the platform fails
\* and {posted: false} is returned.
PostOutcomes == {"posted", "failed"}

PostToPlatform(state, postId, message, by, outcome, hour) ==
    IF outcome = "posted"
    THEN [state EXCEPT !.posts = Append(@, [postId |-> postId, message |-> message,
                                            by |-> by, hour |-> hour])]
    ELSE state

\* The hours at which the platform may be called next: time does not run
\* backwards.
Elapse(posts) ==
    {h \in Hours : Len(posts) = 0 \/ h >= posts[Len(posts)].hour}

\* handleApprove posting the draft as it was generated, whatever was edited.
handleApproveOriginal(state, draft, by, outcome, hour) ==
    PostToPlatform([state EXCEPT !.store = approveDraft(@, draft.notificationId)],
                   draft.postId, draft.draftResponse, by, outcome, hour)

\* handleApprove: the status is updated, then the edited response, or else
\* the draft, is posted.
handleApprove(state, draft, by, outcome, hour) ==
    PostToPlatform([state EXCEPT !.store = approveDraft(@, draft.notificationId)],
                   draft.postId,
                   IF IsDefined(draft.editedResponse) THEN ValueOf(draft.editedResponse)
                   ELSE draft.draftResponse,
                   by, outcome, hour)

handleReject(state, draft) ==
    [state EXCEPT !.store = rejectDraft(@, draft.notificationId)]

\* handleEdit: the edited response is stored and, with
\* APPROVE_EDITED_IMMEDIATELY "true", posted.
handleEdit(state, draft, newResponse, approveEditedImmediately, by, outcome, hour) ==
    LET edited == [state EXCEPT !.store = editDraft(@, draft.notificationId, newResponse)]
    IN  IF approveEditedImmediately = "true"
        THEN PostToPlatform(edited, draft.postId, newResponse, by, outcome, hour)
        ELSE edited

\* A request handled by a webhook: what it asked for.
Request(command, notificationId) ==
    [command |-> command, notificationId |-> notificationId]

\* handleTelegramWebhook on "<command> <id> <text>".
handleTelegramWebhook(state, command, notificationId, newResponse, approveEditedImmediately, outcome, hour) ==
    LET found == getDraftByNotificationId(state.store, notificationId)
        draft == rowToDraft(ValueOf(found))
    IN  IF ~IsDefined(found) THEN state
        ELSE CASE command = "/approve" ->
                      handleApprove(Handled(state, notificationId, "approve"), draft,
                                    Request("approve", notificationId), outcome, hour)
               [] command = "/reject" ->
                      handleReject(Handled(state, notificationId, "reject"), draft)
               [] command = "/edit" ->
                      IF newResponse = "" THEN state
                      ELSE handleEdit(Handled(state, notificationId, "edit"), draft,
                                      newResponse, approveEditedImmediately,
                                      Request("edit", notificationId), outcome, hour)
               [] OTHER -> state

\* handleSlackWebhook on the click of a button: edit changes nothing.
handleSlackWebhook(state, action, notificationId, outcome, hour) ==
    LET found == getDraftByNotificationId(state.store, notificationId)
        draft == rowToDraft(ValueOf(found))
    IN  IF ~IsDefined(found) THEN state
        ELSE CASE action = "approve" ->
                      handleApprove(Handled(state, notificationId, "approve"), draft,
                                    Request("approve", notificationId), outcome, hour)
               [] action = "reject" ->
                      handleReject(Handled(state, notificationId, "reject"), draft)
               [] OTHER -> state

\* notificationTool.execute without saving the draft first.
NotificationToolWithoutDraft(state, channel, postId, draftResponse, notificationId, sent) ==
    IF sent
    THEN [state EXCEPT !.notifications =
              Append(@, [channel |-> channel, notificationId |-> notificationId,
                         draftResponse |-> draftResponse])]
    ELSE state

\* notificationTool.execute: the draft is saved as pending, then the
\* notification with the draft's id is sent; an exception of either makes
\* {sent: false}.
NotificationTool(state, channel, postId, draftResponse, notificationId, sent) ==
    LET saved == saveDraft(state.store, notificationId, postId, draftResponse, "pending")
    IN  IF saved.thrown THEN state
        ELSE IF sent
        THEN [state EXCEPT !.store = saved.value,
                           !.notifications =
                               Append(@, [channel |-> channel,
                                          notificationId |-> notificationId,
                                          draftResponse |-> draftResponse])]
        ELSE [state EXCEPT !.store = saved.value]

\* The loop of a step has passed draft state.next.
AfterDraft(state, totalDrafts) ==
    [state EXCEPT !.next = @ + 1,
                  !.pc = IF state.next >= totalDrafts THEN "done" ELSE @]

\* Inputs: the environment and the drafts of the run.
ApprovalCalls ==
    [tool : {"approval"}, autoApprove : {"true"},
     approveEditedImmediately : {"true", "false"}, channel : {"telegram", "slack"},
     totalDrafts : 0..MaxDrafts]
    \cup [tool : {"approval"}, autoApprove : {"false", "TRUE"},
           approveEditedImmediately : {"true", "false"}, channel : {"telegram", "slack"},
           totalDrafts : 0..MaxPendingDrafts]

\* The ids a request may name: those of the drafts and one of no draft.
KnownIds == {"id" \o ToString(i) : i \in 0..MaxPendingDrafts}

EditedResponses == {"", "edited reply"}

ApprovalStarted ==
    [pc |-> "branch", next |-> 1, store |-> <<>>, notifications |-> <<>>, posts |-> <<>>,
     requests |-> 0]

InitApproval == call \in ApprovalCalls /\ result = ApprovalStarted

\* .branch: the step whose condition holds runs.
Branch ==
    /\ call.tool = "approval"
    /\ result.pc = "branch"
    /\ result' = [result EXCEPT !.pc = IF call.totalDrafts = 0 THEN "done"
                                       ELSE IF AutoApproved(call.autoApprove)
                                       THEN "auto-post" ELSE "send-approval"]
    /\ UNCHANGED call

\* autoPostStep.execute, one draft.
AutoPost ==
    /\ call.tool = "approval"
    /\ result.pc = "auto-post"
    /\ \E outcome \in PostOutcomes, hour \in Elapse(result.posts) :
          result' = AfterDraft(PostToPlatform(result, PostOf(result.next),
                                              DraftResponseOf(result.next),
                                              Request("auto-post", ""),
                                              outcome, hour),
                               call.totalDrafts)
    /\ UNCHANGED call

\* sendForApprovalStep.execute, one draft.
SendForApproval ==
    /\ call.tool = "approval"
    /\ result.pc = "send-approval"
    /\ \E notificationId \in RandomNotificationIds(result.store), sent \in BOOLEAN :
          result' = AfterDraft(NotificationTool(result, call.channel, PostOf(result.next),
                                                DraftResponseOf(result.next),
                                                notificationId, sent),
                               call.totalDrafts)
    /\ UNCHANGED call

TelegramWebhook ==
    /\ call.tool = "approval"
    /\ WebhookServerStarted(call.autoApprove)
    /\ result.requests < MaxRequests
    /\ \E command \in {"/approve", "/reject", "/edit"}, notificationId \in KnownIds,
          newResponse \in EditedResponses, outcome \in PostOutcomes,
          hour \in Elapse(result.posts) :
          result' = [handleTelegramWebhook(result, command, notificationId, newResponse,
                                           call.approveEditedImmediately, outcome, hour)
                         EXCEPT !.requests = @ + 1]
    /\ UNCHANGED call

SlackWebhook ==
    /\ call.tool = "approval"
    /\ WebhookServerStarted(call.autoApprove)
    /\ result.requests < MaxRequests
    /\ \E action \in {"approve", "reject", "edit"}, notificationId \in KnownIds,
          outcome \in PostOutcomes, hour \in Elapse(result.posts) :
          result' = [handleSlackWebhook(result, action, notificationId, outcome, hour)
                         EXCEPT !.requests = @ + 1]
    /\ UNCHANGED call

ApprovalNext == Branch \/ AutoPost \/ SendForApproval \/ TelegramWebhook \/ SlackWebhook

Calls ==
    RadiusCalls \cup TagsCalls \cup IntentCalls \cup BudgetCalls \cup LimitCalls
    \cup WhenCalls \cup CoordinatesCalls \cup EventSearchCalls

Init == InitOf(Calls) \/ InitInvocations \/ InitApproval

Next ==
    \/ RadiusExecute
    \/ TagsExecute
    \/ IntentToTagsExecute
    \/ BudgetExecute
    \/ LimitExecute
    \/ WhenExecute
    \/ CoordinatesExecute
    \/ EventSearchExecute
    \/ InvocationExecute
    \/ Branch
    \/ AutoPost
    \/ SendForApproval
    \/ TelegramWebhook
    \/ SlackWebhook

Spec == Init /\ [][Next]_vars

\* One resolver at a time.
SpecRadius == InitOf(RadiusCalls) /\ [][RadiusExecute]_vars

SpecTags ==
    InitOf(TagsCalls \cup IntentCalls) /\ [][TagsExecute \/ IntentToTagsExecute]_vars

SpecBudget == InitOf(BudgetCalls) /\ [][BudgetExecute]_vars

SpecLimit == InitOf(LimitCalls) /\ [][LimitExecute]_vars

SpecWhen == InitOf(WhenCalls) /\ [][WhenExecute]_vars

SpecCoordinates == InitOf(CoordinatesCalls) /\ [][CoordinatesExecute]_vars

SpecEventSearch == InitOf(EventSearchCalls) /\ [][EventSearchExecute]_vars

SpecInvocations == InitInvocations /\ [][InvocationExecute]_vars

SpecApproval == InitApproval /\ [][ApprovalNext]_vars

Returned(tool) == call.tool = tool /\ result.status = "returned"

(***************************************************************************)
(* Claims about the radius resolver.                                       *)
(***************************************************************************)
\* The numbers N of the phrases "within N km" written in a query, read off
\* the tokens ("within", "N", "km" or "within", "Nkm").
WithinNumbers(q) ==
    {ParseInt(DigitsPrefix(q[i + 1])) :
        i \in {i \in 1..(Len(q) - 1) :
                 /\ ToLowerCase(q[i]) = "within"
                 /\ \/ /\ IsNumber(q[i + 1])
                       /\ i + 2 <= Len(q)
                       /\ ToLowerCase(q[i + 2]) = "km"
                    \/ /\ DigitsPrefix(q[i + 1]) # ""
                       /\ ToLowerCase(AfterDigits(q[i + 1])) = "km"}}

\* C1: a query with an explicit distance phrase "within N km" gets
\* radius_km = N, whatever the is_neighborhood flag, the resolved location
\* and the proximity phrases of the query are (N is the one distance the
\* query names).
C1_ExplicitDistanceWins ==
    Returned("radius") =>
        \A n \in WithinNumbers(call.query) :
            WithinNumbers(call.query) = {n} => result.value.radiusKm = n

\* A query "... within 7 km ... nearby ..." for a neighborhood got 7.
C1_Witness ==
    /\ Returned("radius")
    /\ WithinNumbers(call.query) = {7}
    /\ HasWord(call.query, "nearby")
    /\ call.isNeighborhood = Some(TRUE)
    /\ call.detectedLocation = Some("Koramangala")
    /\ result.value.radiusKm = 7

(***************************************************************************)
(* Claims about the tag resolvers.                                         *)
(***************************************************************************)
\* The text tagsTool matches against: the query and the context, lowered.
TagsFullQuery ==
    LowerTokens(IF IsDefined(call.context) /\ Len(ValueOf(call.context)) > 0
                THEN call.query \o ValueOf(call.context) ELSE call.query)

\* The patterns of a table that have an expression matching q.
MatchingPatterns(table, q) == {k \in DOMAIN table : SomeTest(q, table[k].patterns)}

HighPriorityMatches(q) ==
    {k \in MatchingPatterns(SEMANTIC_PATTERNS, q) : SEMANTIC_PATTERNS[k].highPriority}

StandardMatches(q) ==
    {k \in MatchingPatterns(SEMANTIC_PATTERNS, q) : ~SEMANTIC_PATTERNS[k].highPriority}

\* The returned tags are those of pattern k of tagsTool.
TagsAreOf(k) ==
    /\ result.value.primaryCategories = SEMANTIC_PATTERNS[k].primaryCategories
    /\ result.value.secondaryCategories = SEMANTIC_PATTERNS[k].secondaryCategories
    /\ result.value.interests = SEMANTIC_PATTERNS[k].interests

\* The returned tags are those of high-priority pattern k of intentToTagsTool.
IntentTagsAreOf(k) ==
    /\ result.value.tags.primaryCategories = highPriorityPatterns[k].categories
    /\ result.value.tags.secondaryCategories = highPriorityPatterns[k].secondary
    /\ result.value.tags.interests = highPriorityPatterns[k].interests

\* The claim as stated, with a confidence of at least minConfidence.
OnlyHighPriorityPattern(minConfidence) ==
    /\ Returned("tags") =>
           LET matching == HighPriorityMatches(TagsFullQuery)
           IN  \A k \in matching :
                   matching = {k} =>
                       TagsAreOf(k) /\ result.value.confidence >= minConfidence
    /\ Returned("intent-to-tags") =>
           LET matching == MatchingPatterns(highPriorityPatterns, LowerTokens(call.query))
           IN  \A k \in matching :
                   matching = {k} =>
                       IntentTagsAreOf(k) /\ result.value.tags.confidence >= minConfidence

NoKeywordMatch(found) ==
    /\ found.categories = <<>>
    /\ found.secondaryCategories = <<>>
    /\ found.interests = <<>>

\* The query of tagsTool matches no pattern and no taxonomy keyword.
TagsNoSignal ==
    /\ MatchingPatterns(SEMANTIC_PATTERNS, TagsFullQuery) = {}
    /\ NoKeywordMatch(FindMatchingTags(TagsExtractKeywords(TagsFullQuery)))

\* No name the language model proposed is a name of the taxonomy.
NoValidAiTag ==
    \/ call.ai.kind = "error"
    \/ /\ Range(call.ai.primaryCategories) \cap PrimaryNames = {}
       /\ Range(call.ai.secondaryCategories) \cap SecondaryNames = {}
       /\ Range(call.ai.interests) \cap InterestNames = {}

\* The query of intentToTagsTool matches no pattern and no taxonomy keyword,
\* and the language model yields no valid tag.
IntentNoSignal ==
    /\ MatchingPatterns(highPriorityPatterns, LowerTokens(call.query)) = {}
    /\ MatchingPatterns(intentPatterns, LowerTokens(call.query)) = {}
    /\ NoKeywordMatch(FindMatchingTags(IntentExtractKeywords(call.query)))
    /\ NoValidAiTag

EmptyTags(tags) ==
    /\ tags.primaryCategories = <<>>
    /\ tags.secondaryCategories = <<>>
    /\ tags.interests = <<>>

\* C3 (as stated): a query without any signal makes tagsTool and
\* intentToTagsTool report success with empty primary, secondary and
\* interest sets and a confidence in [0.3, 0.5].
C3_NoSignalEmptyTags ==
    /\ Returned("tags") /\ TagsNoSignal =>
           /\ result.value.success
           /\ EmptyTags(result.value)
           /\ result.value.confidence \in 30..50
    /\ Returned("intent-to-tags") /\ IntentNoSignal =>
           /\ result.value.success
           /\ EmptyTags(result.value.tags)
           /\ result.value.tags.confidence \in 30..50

\* C3 (amended): a query without any signal makes tagsTool report success
\* with empty primary, secondary and interest sets and confidence 0.5, and
\* makes intentToTagsTool report success with the one primary category
\* "Entertainment", empty secondary and interest sets and confidence 0.3.
C3_NoSignalDefault ==
    /\ Returned("tags") /\ TagsNoSignal =>
           /\ result.value.success
           /\ EmptyTags(result.value)
           /\ result.value.confidence = 50
    /\ Returned("intent-to-tags") /\ IntentNoSignal =>
           /\ result.value.success
           /\ result.value.tags.primaryCategories = <<"Entertainment">>
           /\ result.value.tags.secondaryCategories = <<>>
           /\ result.value.tags.interests = <<>>
           /\ result.value.tags.confidence = 30

\* The language model proposes names, none of them of the taxonomy.
C3_Witness ==
    /\ Returned("intent-to-tags")
    /\ IntentNoSignal
    /\ call.ai.kind = "object"
    /\ call.ai.interests # <<>>
    /\ result.value.tags.primaryCategories = <<"Entertainment">>
    /\ result.value.tags.confidence = 30

(***************************************************************************)
(* C4.  The stage that decides the result, and the patterns of that stage  *)
(* the query matches.                                                      *)
(***************************************************************************)
UnionOf(table, ks, field(_)) == UNION {Range(field(table[k])) : k \in ks}

\* The tags of tagsTool are the union over the matching patterns ks.
TagsAreUnion(ks) ==
    /\ Range(result.value.primaryCategories)
           = UnionOf(SEMANTIC_PATTERNS, ks, LAMBDA p : p.primaryCategories)
    /\ Range(result.value.secondaryCategories)
           = UnionOf(SEMANTIC_PATTERNS, ks, LAMBDA p : p.secondaryCategories)
    /\ Range(result.value.interests)
           = UnionOf(SEMANTIC_PATTERNS, ks, LAMBDA p : p.interests)

\* The tags of intentToTagsTool are the union over the matching patterns ks.
IntentTagsAreUnion(table, ks) ==
    /\ Range(result.value.tags.primaryCategories)
           = UnionOf(table, ks, LAMBDA p : p.categories)
    /\ Range(result.value.tags.secondaryCategories)
           = UnionOf(table, ks, LAMBDA p : p.secondary)
    /\ Range(result.value.tags.interests)
           = UnionOf(table, ks, LAMBDA p : p.interests)

\* C4 (tagsTool): in the high-priority stage and in the general stage the
\* tags are the union of the tags of all matching patterns of the stage.
C4_TagsUnion ==
    Returned("tags") =>
        /\ result.value.stage = "high-priority" =>
               TagsAreUnion(HighPriorityMatches(TagsFullQuery))
        /\ result.value.stage = "semantic" =>
               TagsAreUnion(MatchingPatterns(SEMANTIC_PATTERNS, TagsFullQuery))

\* C4 (intentToTagsTool, high-priority stage): the tags are the union of the
\* tags of all matching high-priority patterns.
C4_IntentHighPriorityUnion ==
    Returned("intent-to-tags") /\ result.value.tags.stage = "high-priority" =>
        IntentTagsAreUnion(highPriorityPatterns,
                           MatchingPatterns(highPriorityPatterns, LowerTokens(call.query)))

\* C4 (intentToTagsTool, general stage): the tags are the union of the tags
\* of all matching general patterns.
C4_IntentGeneralUnion ==
    Returned("intent-to-tags") /\ result.value.tags.stage = "semantic" =>
        IntentTagsAreUnion(intentPatterns,
                           MatchingPatterns(intentPatterns, LowerTokens(call.query)))

\* C4: whenever a query matches several patterns of the stage that decides
\* the result, the tags are the union of the tags of all matching patterns
\* of that stage, in both stages of tagsTool and of intentToTagsTool.
C4_UnionOfAllMatching ==
    /\ C4_TagsUnion
    /\ C4_IntentHighPriorityUnion
    /\ C4_IntentGeneralUnion

(***************************************************************************)
(* Claims about the budget resolver.                                       *)
(***************************************************************************)
\* The amount written at token j: N, or N after a rupee sign.
AmountAt(q, j) ==
    IF j > Len(q) THEN {}
    ELSE IF IsNumber(q[j]) THEN {ParseInt(q[j])}
    ELSE IF Len(q[j]) > 1 /\ CharAt(q[j], 1) = "₹" /\ IsNumber(Drop(q[j], 1))
    THEN {ParseInt(Drop(q[j], 1))}
    ELSE IF q[j] = "₹" /\ j < Len(q) /\ IsNumber(q[j + 1]) THEN {ParseInt(q[j + 1])}
    ELSE {}

\* The amounts N of the price phrases "under N", "below N", "max N",
\* "maximum N", "less than N" and "budget of N" of a query, read off its
\* words.
PriceNumbers(query) ==
    LET q == LowerTokens(query)
    IN  UNION {IF q[i] \in {"under", "below", "max", "maximum"} THEN AmountAt(q, i + 1)
               ELSE IF i < Len(q) /\ q[i] = "less" /\ q[i + 1] = "than"
               THEN AmountAt(q, i + 2)
               ELSE IF i < Len(q) /\ q[i] = "budget" /\ q[i + 1] = "of"
               THEN AmountAt(q, i + 2)
               ELSE {} :
               i \in DOMAIN q}

\* C5: a query with an explicit price phrase (under / less than / below /
\* max / budget of N; one amount N in the query) returns max_price N, with
\* class budget and free_only false when N > 0 and class free and free_only
\* true when N = 0, whatever free, cheap, student or premium keyword the
\* query also holds.
C5_ExplicitPriceWins ==
    Returned("budget") =>
        LET amounts == PriceNumbers(call.query)
        IN  \A n \in amounts :
                amounts = {n} =>
                    /\ result.value.success
                    /\ result.value.budget.maxPrice = Some(n)
                    /\ result.value.budget.type = (IF n = 0 THEN "free" ELSE "budget")
                    /\ result.value.budget.freeOnly = (n = 0)

\* "under 200" with "free" and "student" in the same query.
C5_Witness ==
    /\ Returned("budget")
    /\ PriceNumbers(call.query) = {200}
    /\ HasWord(call.query, "free")
    /\ HasWord(call.query, "student")
    /\ result.value.budget = [type |-> "budget", maxPrice |-> Some(200), freeOnly |-> FALSE]

(***************************************************************************)
(* Claims about the limit resolver.                                        *)
(***************************************************************************)
\* C7: for every query and every default limit the limit resolver returns
\* an integer in [1, 20].
C7_LimitInRange == Returned("limit") => result.value.limit \in 1..20

\* What holds: a limit outside [1, 20] is the default limit of the call.
C7_OnlyDefaultOutOfRange ==
    Returned("limit") /\ result.value.limit \notin 1..20 =>
        /\ result.value.branch = "default"
        /\ call.defaultLimit = Some(result.value.limit)

(***************************************************************************)
(* Claims about the temporal resolver.                                     *)
(***************************************************************************)
\* The number written at places from..to of a string.
NumberIn(str, from, to) == ParseInt(SubSeq(str, from, to))

\* The local day and the milliseconds since local midnight of an instant
\* written as YYYY-MM-DDTHH:mm:ss.sssZ, on a clock offsetMinutes east of UTC.
LocalOf(iso, offsetMinutes) ==
    LET utc == ((NumberIn(iso, 12, 13) * 60 + NumberIn(iso, 15, 16)) * 60
                + NumberIn(iso, 18, 19)) * 1000 + NumberIn(iso, 21, 23)
        local == utc + offsetMinutes * 60000
    IN  DateOf(DayNumber(NumberIn(iso, 1, 4), NumberIn(iso, 6, 7) - 1, NumberIn(iso, 9, 10))
               + (local \div 86400000),
               local % 86400000)

\* The weekday of a day, 0 for Sunday, counted from Wednesday 4 November 2026.
WeekdayOf(day) == (3 + day - DayNumber(2026, 10, 4)) % 7

SaysWeekend == HasWord(LowerTokens(call.query), "weekend")

SaysTodayOrTomorrow ==
    LET q == LowerTokens(call.query)
    IN  \/ HasWord(q, "today") \/ HasWord(q, "tonight") \/ HasWord(q, "tomorrow")
        \/ HasPhrase(q, <<"this", "evening">>)

\* The result is the weekend after the call's day: a Saturday 0 to 6 days
\* ahead (3 on a Wednesday), from its midnight to the end of the Sunday one
\* day later.
ResolvesToWeekend ==
    /\ result.value.success
    /\ result.value.detected
    /\ LET when == ValueOf(result.value.when)
           start == LocalOf(when.startDate, call.offsetMinutes)
           end == LocalOf(when.endDate, call.offsetMinutes)
       IN  /\ when.value = "weekend"
           /\ WeekdayOf(start.day) = 6
           /\ start.ms = 0
           /\ start.day - call.now.day \in 0..6
           /\ WeekdayOf(call.now.day) = 3 => start.day - call.now.day = 3
           /\ WeekdayOf(call.now.day) = 0 => start.day - call.now.day = 6
           /\ end.day = start.day + 1
           /\ WeekdayOf(end.day) = 0

\* C6 (as stated): on each of the seven weekdays a query containing
\* "weekend" or "this weekend" resolves to a Saturday 0 to 6 days after
\* today and the Sunday one calendar day after it.
C6_WeekendQueryIsSaturdaySunday == Returned("when") /\ SaysWeekend => ResolvesToWeekend

\* C6 (amended): on each of the seven weekdays a query containing "weekend"
\* or "this weekend", and none of "today", "tonight", "this evening" and
\* "tomorrow", resolves to a Saturday 0 to 6 days after today (3 on a
\* Wednesday, 6 on a Sunday) and the Sunday one calendar day after it, also
\* across the end of a month and of a year.
C6_WeekendIsSaturdaySunday ==
    Returned("when") /\ SaysWeekend /\ ~SaysTodayOrTomorrow => ResolvesToWeekend

\* Sunday 28 December 2025, on a clock 5:30 east of UTC: the weekend is
\* Saturday 3 January 2026 and the Sunday after it.
C6_Witness ==
    /\ Returned("when")
    /\ SaysWeekend
    /\ call.now.day = DayNumber(2025, 11, 28)
    /\ WeekdayOf(call.now.day) = 0
    /\ call.offsetMinutes = 330
    /\ ValueOf(result.value.when).startDate = "2026-01-02T18:30:00.000Z"
    /\ ValueOf(result.value.when).endDate = "2026-01-04T18:29:59.999Z"

(***************************************************************************)
(* Claims about the location resolver.                                     *)
(***************************************************************************)
Finished(tool) == call.tool = tool /\ result # Pending

\* The candidate is a city of the static table.
CandidateInTable ==
    \E i \in DOMAIN INDIAN_CITY_COORDINATES :
        INDIAN_CITY_COORDINATES[i].name
            = Trim(ToLowerCase(DetectedLocation(call.query, call.defaultCity)))

\* The geocode service is asked and answers with a match.
GeocodeMatches == call.apiKey /\ call.outcome.kind = "match"

\* No candidate, or a candidate that neither the table nor the geocode
\* service resolves.
Unresolvable ==
    \/ DetectedLocation(call.query, call.defaultCity) = ""
    \/ ~CandidateInTable /\ ~GeocodeMatches

FailureReported ==
    /\ result.value.success = FALSE
    /\ IsDefined(result.value.error)
    /\ result.value.confidence = 0
    /\ result.value.coordinates = Undefined

\* C8: for every query and every outcome of the geocode call the location
\* resolver returns a result and never throws, and when there is no
\* candidate or the candidate cannot be resolved the result reports
\* success = false with an error message, confidence 0 and no coordinates.
C8_NeverThrowsFailureReported ==
    Finished("coordinates")
        => /\ result.status = "returned"
           /\ Unresolvable => FailureReported

\* The part of C8 that holds of every call: no exception leaves the
\* resolver, and a result without coordinates is a reported failure.
C8_NeverThrows ==
    Finished("coordinates")
        => /\ result.status = "returned"
           /\ (result.value.coordinates = Undefined <=> FailureReported)
           /\ (result.value.coordinates = Undefined <=> ~result.value.success)

(***************************************************************************)
(* Claims about event retrieval.                                           *)
(***************************************************************************)
SearchSucceeded == Returned("event-search") /\ result.value.success

\* The candidates: the events of the catalog's answer, in its order.
Candidates == [i \in DOMAIN RawEvents(call.response) |-> MapEvent(RawEvents(call.response)[i])]

RequestedTags == IF IsDefined(call.tags) THEN ValueOf(call.tags) ELSE <<>>

\* A tag or the category of the event contains a requested tag.
HasRequestedTag(event) ==
    \E f \in DOMAIN RequestedTags :
        \/ \E t \in DOMAIN event.tags : Contains(event.tags[t], RequestedTags[f])
        \/ Contains(event.category, RequestedTags[f])

\* A tag or the category of the event is part of a requested tag.
IsPartOfRequestedTag(event) ==
    \E f \in DOMAIN RequestedTags :
        \/ \E t \in DOMAIN event.tags : Contains(RequestedTags[f], event.tags[t])
        \/ Contains(RequestedTags[f], event.category)

\* The events the search kept are those of the candidates that satisfy
\* Keep: as many are counted, only such are returned, and all of them are
\* when the limit leaves room.
KeptAre(Keep(_)) ==
    LET candidates == Candidates
        keepers == {i \in DOMAIN candidates : Keep(candidates[i])}
    IN  /\ result.value.totalFound = Cardinality(keepers)
        /\ Range(result.value.events) \subseteq {candidates[i] : i \in keepers}
        /\ call.limit >= Cardinality(keepers)
             => Range(result.value.events) = {candidates[i] : i \in keepers}

\* C9 (as stated): with a non-empty tag set an event is kept if and only
\* if one of its tags or its category contains a requested tag, letter case
\* aside; with an empty tag set no event is removed.
C9_KeptIffContainsRequestedTag ==
    SearchSucceeded
        => IF Len(RequestedTags) > 0 THEN KeptAre(HasRequestedTag)
           ELSE KeptAre(LAMBDA event : TRUE)

\* C9 (amended): with a non-empty tag set an event is kept if and only if
\* one of its tags or its category contains a requested tag or is itself
\* contained in a requested tag, letter case aside; with an empty tag set
\* no event is removed.
C9_KeptIffContainsOrContained ==
    SearchSucceeded
        => IF Len(RequestedTags) > 0
           THEN KeptAre(LAMBDA event : HasRequestedTag(event) \/ IsPartOfRequestedTag(event))
           ELSE KeptAre(LAMBDA event : TRUE)

\* Of a music event, a food event and a rock event filed under music
\* festivals, the tag "Music" keeps the first and the third.
C9_Witness ==
    /\ SearchSucceeded
    /\ call.tags = Some(<<"Music">>)
    /\ call.limit = DEFAULT_LIMIT
    /\ [i \in DOMAIN Candidates |-> Candidates[i].id] = <<"e1", "e2", "e3">>
    /\ {e.id : e \in Range(result.value.events)} = {"e1", "e3"}
    /\ result.value.totalFound = 2

\* The candidates that survive the tag filter, in the catalog's order.
Survivors ==
    IF Len(RequestedTags) > 0
    THEN SelectSeq(Candidates,
                   LAMBDA event : HasRequestedTag(event) \/ IsPartOfRequestedTag(event))
    ELSE Candidates

\* The score of each survivor, all alike when the search has no query and
\* so is not ranked.
SurvivorScores(survivors) ==
    [i \in DOMAIN survivors |->
        IF IsDefined(call.query) /\ Len(ValueOf(call.query)) > 0
        THEN calculateRelevanceScore(survivors[i], LowerTokens(ValueOf(call.query)))
        ELSE 0]

\* The place of the i-th survivor in the list the result is cut from:
\* behind every survivor of a higher score and every earlier survivor of
\* the same score.
PlaceOf(scores, i) ==
    1 + Cardinality({j \in DOMAIN scores :
                         scores[j] > scores[i] \/ (scores[j] = scores[i] /\ j < i)})

\* C10: the events of a successful search are the first `limit` of the
\* filtered and, with a query, ranked candidates, so as many as the smaller
\* of limit and totalFound, and totalFound is the number of candidates that
\* survived the tag filter.
C10_FirstLimitOfFiltered ==
    SearchSucceeded
        => LET survivors == Survivors
               scores == SurvivorScores(survivors)
           IN  /\ result.value.totalFound = Len(survivors)
               /\ Len(result.value.events) = Min(call.limit, result.value.totalFound)
               /\ \A i \in DOMAIN survivors :
                      PlaceOf(scores, i) <= call.limit
                          => result.value.events[PlaceOf(scores, i)] = survivors[i]

\* Three candidates, two of which survive the filter and change places in
\* the ranking; the limit of one returns the better and counts both.
C10_Witness ==
    /\ SearchSucceeded
    /\ call.tags = Some(<<"Music">>)
    /\ call.query = Some(<<"Night", "music">>)
    /\ call.limit = 1
    /\ [i \in DOMAIN Candidates |-> Candidates[i].id] = <<"e3", "e2", "e1">>
    /\ [i \in DOMAIN result.value.events |-> result.value.events[i].id] = <<"e1">>
    /\ result.value.totalFound = 2

(***************************************************************************)
(* C11.  The confidence the resolvers report.                              *)
(***************************************************************************)
SpecConfidence ==
    /\ InitOf(TagsCalls \cup IntentCalls \cup CoordinatesCalls)
    /\ [][TagsExecute \/ IntentToTagsExecute \/ CoordinatesExecute]_vars

\* The confidence of a returned result, in hundredths; <<>> when the result
\* carries none.
ReportedConfidence ==
    IF Returned("tags") \/ Returned("coordinates") THEN Some(result.value.confidence)
    ELSE IF Returned("intent-to-tags") THEN Some(result.value.tags.confidence)
    ELSE Undefined

\* C11: every result of the location resolver, of tagsTool and of
\* intentToTagsTool that carries a confidence carries one within [0, 1]
\* (0..100 hundredths), whichever stage produced it: pattern, keyword
\* fallback, language model, default or failure.
C11_ConfidenceInUnitInterval ==
    IsDefined(ReportedConfidence) => ValueOf(ReportedConfidence) \in 0..100

\* The keyword fallback of intentToTagsTool with two interests and a
\* primary category matched: each boost is added once, 0.5 + 0.3 + 0.05.
C11_Witness ==
    /\ Returned("intent-to-tags")
    /\ result.value.tags.stage = "keyword"
    /\ Len(result.value.tags.interests) > 1
    /\ Len(result.value.tags.primaryCategories) > 0
    /\ result.value.tags.confidence = 85

(***************************************************************************)
(* C12.  The resolvers on one request, from the text to the search         *)
(* specification.  The requests are the example and the texts it leaves    *)
(* when some of its five phrases are dropped; the radius resolver is given *)
(* the location and the isNeighborhood flag the location resolver returned *)
(* for the same text.                                                      *)
(***************************************************************************)
ExamplePhrases ==
    << <<"free">>, <<"jazz", "night">>, <<"this", "weekend">>,
       <<"near", "Koramangala,">>, <<"just", "one", "pick">> >>

ExampleQuery == Flatten(ExamplePhrases)

ExampleQueries ==
    {Flatten([i \in DOMAIN ExamplePhrases |->
                  IF i \in kept THEN ExamplePhrases[i] ELSE <<>>]) :
         kept \in SUBSET DOMAIN ExamplePhrases}

\* What the geocode service does when it is asked: it fails, it finds
\* nothing or it finds the place.
ExampleGeocodes ==
    {o \in GeocodeOutcomes :
         \/ o.kind \in {"network-error", "not-found"}
         \/ o.kind = "match" /\ o.location_type = "ROOFTOP"}

\* The calls of the radius resolver that pass on what the location resolver
\* returned for the same text.
RadiusCallAfter(query, completion) ==
    [tool |-> "radius", query |-> query,
     detectedLocation |-> completion.value.location,
     isNeighborhood |-> Some(completion.value.isNeighborhood)]

RadiusCallsAfterCoordinates ==
    {RadiusCallAfter(c[1], c[2]) :
         c \in {c \in UNION {{<<query, CoordinatesTool(query, defaultCity, apiKey, outcome)>> :
                                  defaultCity \in LocationDefaults, apiKey \in BOOLEAN,
                                  outcome \in ExampleGeocodes} :
                             query \in ExampleQueries} :
                    ~c[2].thrown}}

ExampleCalls ==
    [tool : {"coordinates"}, query : ExampleQueries, defaultCity : LocationDefaults,
     apiKey : BOOLEAN, outcome : ExampleGeocodes]
    \cup RadiusCallsAfterCoordinates
    \cup [tool : {"tags"}, query : ExampleQueries, context : {Undefined}]
    \cup [tool : {"intent-to-tags"}, query : ExampleQueries, ai : AiOutcomes]
    \cup [tool : {"when"}, query : ExampleQueries, now : {c.now : c \in WhenClocks},
          offsetMinutes : {c.offsetMinutes : c \in WhenClocks}]
    \cup [tool : {"budget"}, query : ExampleQueries]
    \cup [tool : {"limit"}, query : ExampleQueries, defaultLimit : LimitDefaults]

SpecExample ==
    /\ InitOf(ExampleCalls)
    /\ [][CoordinatesExecute \/ RadiusExecute \/ TagsExecute \/ IntentToTagsExecute
          \/ WhenExecute \/ BudgetExecute \/ LimitExecute]_vars

\* C12: on "free jazz night this weekend near Koramangala, just one pick"
\* the location resolver finds the neighborhood Koramangala, the radius
\* resolver, given that location and flag, returns 5 km, both tag resolvers
\* return tags that include Music and Jazz/Blues, the temporal resolver
\* returns the weekend as a range from the Saturday's first to the Sunday's
\* last millisecond, the budget resolver returns the class free with a
\* maximal price of 0 and the limit resolver returns 1.
C12_ExampleSpecification ==
    call.query = ExampleQuery /\ result.status = "returned"
        => /\ call.tool = "coordinates"
                => /\ result.value.success
                   /\ result.value.location = Some("koramangala")
                   /\ result.value.isNeighborhood
           /\ call.tool = "radius"
                => /\ call.detectedLocation = Some("koramangala")
                   /\ call.isNeighborhood = Some(TRUE)
                   /\ result.value.radiusKm = 5
           /\ call.tool = "tags"
                => {"Music", "Jazz/Blues"} \subseteq Range(result.value.allTags)
           /\ call.tool = "intent-to-tags"
                => {"Music", "Jazz/Blues"}
                       \subseteq Range(result.value.tags.primaryCategories)
                                 \cup Range(result.value.tags.secondaryCategories)
                                 \cup Range(result.value.tags.interests)
           /\ call.tool = "when" => ResolvesToWeekend
           /\ call.tool = "budget"
                => /\ result.value.budget.type = "free"
                   /\ result.value.budget.maxPrice = Some(0)
           /\ call.tool = "limit" => result.value.limit = 1

\* The radius resolver has answered the example with what the location
\* resolver returned for it.
C12_Witness ==
    /\ Returned("radius")
    /\ call.query = ExampleQuery
    /\ call.detectedLocation = Some("koramangala")
    /\ call.isNeighborhood = Some(TRUE)
    /\ result.value.radiusKm = 5
    /\ result.value.locationType = "neighborhood"

(***************************************************************************)
(* C13.  Event retrieval when the catalog cannot be fetched.               *)
(***************************************************************************)
\* The fetch threw, or the catalog answered with a status that is not OK.
FetchFailed == call.response.kind \in {"network-error", "http-error"}

\* C13: when the fetch of the catalog fails, by an exception of the network
\* or by a status that is not OK, event retrieval returns, without
\* throwing, {success: false, events: [], totalFound: 0} with an error
\* message, and it has made one request, with no retry.
C13_FetchFailureReported ==
    Finished("event-search") /\ FetchFailed
        => /\ result.status = "returned"
           /\ ~result.value.success
           /\ result.value.events = <<>>
           /\ result.value.totalFound = 0
           /\ IsDefined(result.value.error)
           /\ ValueOf(result.value.error) # ""
           /\ Len(result.requests) = 1

\* The catalog answers 500 to a search with tags: the failure carries the
\* status in its message and the tags asked for.
C13_Witness ==
    /\ Finished("event-search")
    /\ call.response.kind = "http-error"
    /\ call.tags = Some(<<"Music">>)
    /\ ~result.value.success
    /\ result.value.error = Some("Happenings API error: 500 Internal Server Error")
    /\ result.value.searchParams.tagsUsed = <<"Music">>
    /\ Len(result.requests) = 1

Approval == call.tool = "approval"

ManualMode == Approval /\ call.autoApprove # "true"

\* The stored draft a reply was posted for, by the id of the request that
\* made the reply: <<>> when no draft has that id.
DraftPostedBy(post) == getDraftByNotificationId(result.store, post.by.notificationId)

\* The command of the request posts a reply: approve does, edit does with
\* APPROVE_EDITED_IMMEDIATELY "true".
PostingCommand(command) ==
    \/ command = "approve"
    \/ command = "edit" /\ call.approveEditedImmediately = "true"

\* C15: when AUTO_APPROVE is not "true" the run never enters the auto-post
\* step and posts nothing itself, and every reply that is posted is the
\* response (as generated or as edited) of a stored draft for whose
\* notification id an approve command, or with APPROVE_EDITED_IMMEDIATELY
\* "true" an edit command, was handled.
C15_ManualModePostsOnlyOnCommand ==
    ManualMode
        => /\ result.pc # "auto-post"
           /\ \A k \in DOMAIN result.posts :
                  LET post == result.posts[k]
                      draft == DraftPostedBy(post)
                  IN  /\ PostingCommand(post.by.command)
                      /\ IsDefined(draft)
                      /\ ValueOf(draft).postId = post.postId
                      /\ post.by.command \in ValueOf(draft).handled
                      /\ post.message \in {ValueOf(draft).draftResponse,
                                           "edited reply"}

\* AUTO_APPROVE is "TRUE", which is not "true": the run has sent two drafts
\* for approval and one of them was posted on /approve.
C15_Witness ==
    /\ ManualMode
    /\ call.autoApprove = "TRUE"
    /\ result.pc = "done"
    /\ Len(result.notifications) = 2
    /\ Len(result.posts) = 1
    /\ result.posts[1].by = Request("approve", "id2")
    /\ result.posts[1].message = DraftResponseOf(2)

\* The replies a step adds.
NewPosts == {k \in DOMAIN result'.posts : k > Len(result.posts)}

\* C16: once a reject command was handled for a draft, no later command,
\* approve or edit, posts a reply for the draft's notification id.
C16_RejectedNeverPosted ==
    [][Approval
           => \A k \in NewPosts :
                  LET draft == DraftPostedBy(result'.posts[k])
                  IN  IsDefined(draft) => "reject" \notin ValueOf(draft).handled]_vars

\* The step handles the Telegram command for the notification id.
TelegramStep(command, notificationId, newResponse, outcome, hour) ==
    result' = [handleTelegramWebhook(result, command, notificationId, newResponse,
                                     call.approveEditedImmediately, outcome, hour)
                   EXCEPT !.requests = @ + 1]

\* The step adds one reply, with this message, to the post of the draft.
PostsOne(draft, message) ==
    /\ Len(result'.posts) = Len(result.posts) + 1
    /\ SubSeq(result'.posts, 1, Len(result.posts)) = result.posts
    /\ result'.posts[Len(result'.posts)].postId = draft.postId
    /\ result'.posts[Len(result'.posts)].message = message

\* C17: with APPROVE_EDITED_IMMEDIATELY other than "true", /edit stores the
\* edited response and the status "edited" and posts nothing, and an
\* /approve that follows for the same id posts the edited response, not
\* the draft as generated; with "true", /edit itself posts the edited
\* response.  (A reply is posted when the platform accepts it.)
C17_EditThenApprove ==
    [][Approval
           => \A notificationId \in KnownIds, outcome \in PostOutcomes,
                 hour \in Elapse(result.posts) :
                  LET found == getDraftByNotificationId(result.store, notificationId)
                      after == getDraftByNotificationId(result'.store, notificationId)
                  IN  IsDefined(found)
                          => /\ TelegramStep("/edit", notificationId, "edited reply",
                                             outcome, hour)
                                  => /\ ValueOf(after).status = "edited"
                                     /\ ValueOf(after).editedResponse
                                            = Some("edited reply")
                                     /\ IF call.approveEditedImmediately = "true"
                                        THEN outcome = "posted"
                                                 => PostsOne(ValueOf(found),
                                                             "edited reply")
                                        ELSE result'.posts = result.posts
                             /\ (/\ TelegramStep("/approve", notificationId, "", outcome,
                                                 hour)
                                 /\ ValueOf(found).status = "edited"
                                 /\ outcome = "posted")
                                  => PostsOne(ValueOf(found),
                                              ValueOf(ValueOf(found).editedResponse))]_vars

\* APPROVE_EDITED_IMMEDIATELY is "false": the draft was edited, nothing was
\* posted then, and /approve has posted the edited response.
C17_Witness ==
    /\ ManualMode
    /\ call.approveEditedImmediately = "false"
    /\ result.requests = 2
    /\ Len(result.store) = 1
    /\ result.store[1].handled = {"edit", "approve"}
    /\ result.store[1].status = "approved"
    /\ Len(result.posts) = 1
    /\ result.posts[1].by = Request("approve", "id1")
    /\ result.posts[1].message = "edited reply"

\* The replies posted at an hour.
PostsAt(hour) == {k \in DOMAIN result.posts : result.posts[k].hour = hour}

\* C18: within one hour at most 2 replies are posted, those of the
\* auto-post step and those of the webhooks together.
C18_AtMostTwoPostsPerHour ==
    Approval => \A hour \in Hours : Cardinality(PostsAt(hour)) <= 2

\* The rows of the store with the notification id.
RowsWith(notificationId) ==
    {i \in DOMAIN result.store : result.store[i].notificationId = notificationId}

\* C19 (state): every approval notification that was sent carries the
\* notification id of exactly one stored draft, the draft of its response,
\* and no two notifications carry the same id.
C19_NotificationHasOneDraft ==
    Approval
        => /\ \A k \in DOMAIN result.notifications :
                  /\ Cardinality(RowsWith(result.notifications[k].notificationId)) = 1
                  /\ \A i \in RowsWith(result.notifications[k].notificationId) :
                         result.store[i].draftResponse
                             = result.notifications[k].draftResponse
           /\ \A k, l \in DOMAIN result.notifications :
                  result.notifications[k].notificationId
                      = result.notifications[l].notificationId => k = l

\* C19: a step that sends an approval notification to Telegram or Slack has
\* saved, before sending, a draft with status "pending" under a
\* notification id that no draft stored before has, and the notification
\* carries that id.
C19_DraftSavedBeforeNotification ==
    [][Approval /\ Len(result'.notifications) > Len(result.notifications)
           => LET sent == result'.notifications[Len(result'.notifications)]
                  saved == result'.store[Len(result'.store)]
              IN  /\ Len(result'.notifications) = Len(result.notifications) + 1
                  /\ Len(result'.store) = Len(result.store) + 1
                  /\ SubSeq(result'.store, 1, Len(result.store)) = result.store
                  /\ saved.status = "pending"
                  /\ saved.draftResponse = sent.draftResponse
                  /\ saved.notificationId = sent.notificationId
                  /\ sent.channel = call.channel
                  /\ \A i \in DOMAIN result.store :
                         result.store[i].notificationId # saved.notificationId]_vars

\* Both drafts of a run were saved, each under its own id, and the second
\* notification, sent to Slack, carries the id of the second draft.
C19_Witness ==
    /\ Approval
    /\ call.channel = "slack"
    /\ call.totalDrafts = 2
    /\ result.pc = "done"
    /\ Len(result.notifications) = 2
    /\ Len(result.store) = 2
    /\ result.notifications[2].notificationId = "id2"
    /\ result.store[2].notificationId = "id2"
    /\ result.store[2].status \in {"pending", "rejected"}

(***************************************************************************)
(* C20.  The order of the stages of the tag resolvers.                     *)
(***************************************************************************)
\* The largest confidence among the patterns ks of tagsTool, 0 for none.
LargestConfidence(ks) ==
    IF ks = {} THEN 0
    ELSE CHOOSE c \in {SEMANTIC_PATTERNS[k].confidence : k \in ks} :
             \A k \in ks : SEMANTIC_PATTERNS[k].confidence <= c

\* The keyword fallback finds a secondary category or an interest.
KeywordsHit(keywords) ==
    \E name \in SecondaryNames \cup InterestNames : KeywordHit(keywords, name)

\* The first stage of tagsTool that meets its threshold.
TagsStageInOrder(q, keywords) ==
    IF LargestConfidence(HighPriorityMatches(q)) >= 85 THEN "high-priority"
    ELSE IF LargestConfidence(MatchingPatterns(SEMANTIC_PATTERNS, q)) >= 70
    THEN "semantic"
    ELSE IF KeywordsHit(keywords) THEN "keyword"
    ELSE IF MatchingPatterns(SEMANTIC_PATTERNS, q) # {} THEN "low-confidence"
    ELSE "default"

\* The confidence of the pattern stages of intentToTagsTool: 0.9 for a
\* high-priority pattern, else 0.3 for no pattern and 0.5 + 0.1 for each
\* matching pattern, at most 0.9.
IntentPatternConfidence(q) ==
    IF MatchingPatterns(highPriorityPatterns, q) # {} THEN 90
    ELSE IF MatchingPatterns(intentPatterns, q) = {} THEN 30
    ELSE Min(90, 50 + 10 * Cardinality(MatchingPatterns(intentPatterns, q)))

\* The model is asked and returns a name of the taxonomy.
ModelAnswers(ai) ==
    /\ ai.kind = "object"
    /\ \/ Range(ai.primaryCategories) \cap PrimaryNames # {}
       \/ Range(ai.secondaryCategories) \cap SecondaryNames # {}
       \/ Range(ai.interests) \cap InterestNames # {}

\* The first stage of intentToTagsTool that meets its threshold; when none
\* does, the result of the pattern stages is returned as it is.
IntentStageInOrder(q, keywords, ai) ==
    IF MatchingPatterns(highPriorityPatterns, q) # {} THEN "high-priority"
    ELSE IF IntentPatternConfidence(q) >= 70 THEN "semantic"
    ELSE IF KeywordsHit(keywords) THEN "keyword"
    ELSE IF IntentPatternConfidence(q) < 50 /\ ModelAnswers(ai) THEN "ai"
    ELSE IF MatchingPatterns(intentPatterns, q) # {} THEN "semantic"
    ELSE "default"

\* C20: both tag resolvers return the result of the first stage, in the
\* order high-priority patterns, general patterns, keyword fallback, model
\* fallback, default, that meets its threshold, and intentToTagsTool asks
\* the language model only when the confidence of the pattern stages is
\* below 0.5 and the keyword fallback found no secondary category and no
\* interest.
C20_StagesInOrder ==
    /\ Returned("tags")
           => result.value.stage
                  = TagsStageInOrder(TagsFullQuery, TagsExtractKeywords(TagsFullQuery))
    /\ Returned("intent-to-tags")
           => /\ result.value.tags.stage
                     = IntentStageInOrder(LowerTokens(call.query),
                                          IntentExtractKeywords(call.query), call.ai)
              /\ result.value.aiCalled
                     => /\ IntentPatternConfidence(LowerTokens(call.query)) < 50
                        /\ ~KeywordsHit(IntentExtractKeywords(call.query))

\* A query without a pattern and without a keyword of the taxonomy: the
\* model was asked and its answer is the result.
C20_Witness ==
    /\ Returned("intent-to-tags")
    /\ call.query = <<"hello">>
    /\ result.value.aiCalled
    /\ result.value.tags.stage = "ai"
    /\ result.value.tags.confidence = 75

(***************************************************************************)
(* C21.  The model fallback of intentToTagsTool.                           *)
(***************************************************************************)
\* The result carries the tags of the model fallback.
FromModel == Returned("intent-to-tags") /\ result.value.tags.stage = "ai"

\* The names of xs that are names of level, in the order of xs.
ValidOf(xs, level) == SelectSeq(xs, LAMBDA x : x \in level)

\* C21: every name of a model-fallback result is a name of the taxonomy at
\* the level it is reported in, the result holding exactly the proposed names
\* that are; and when the model is asked and fails or proposes no valid
\* name, the result is the default one, reported as a success without an
\* error.
C21_ModelTagsValidated ==
    /\ FromModel =>
           /\ call.ai.kind = "object"
           /\ Range(result.value.tags.primaryCategories) \subseteq PrimaryNames
           /\ Range(result.value.tags.secondaryCategories) \subseteq SecondaryNames
           /\ Range(result.value.tags.interests) \subseteq InterestNames
           /\ result.value.tags.primaryCategories
                  = ValidOf(call.ai.primaryCategories, PrimaryNames)
           /\ result.value.tags.secondaryCategories
                  = ValidOf(call.ai.secondaryCategories, SecondaryNames)
           /\ result.value.tags.interests = ValidOf(call.ai.interests, InterestNames)
    /\ (Returned("intent-to-tags") /\ result.value.aiCalled /\ NoValidAiTag) =>
           /\ result.value.success
           /\ "error" \notin DOMAIN result.value
           /\ result.value.tags.stage = "default"
           /\ result.value.tags.primaryCategories = <<"Entertainment">>
           /\ result.value.tags.confidence = 30

\* The model proposes a name of the taxonomy and one that is none in each of
\* two levels: the result holds the former only.
C21_Witness ==
    /\ FromModel
    /\ call.ai.primaryCategories = <<"Music", "Bogus">>
    /\ result.value.tags.primaryCategories = <<"Music">>
    /\ result.value.tags.interests = <<"Jazz/Blues">>

\* The model is asked and fails: the default result is returned.
C21_WitnessFallThrough ==
    /\ Returned("intent-to-tags")
    /\ result.value.aiCalled
    /\ call.ai.kind = "error"
    /\ result.value.tags.stage = "default"

(***************************************************************************)
(* C22.  The confidence of several matching patterns.                      *)
(***************************************************************************)
\* C22 (tagsTool): in the pattern stages the confidence is the largest of
\* the confidences of the matching patterns of the stage.
C22_TagsConfidenceIsMax ==
    Returned("tags") =>
        /\ result.value.stage = "high-priority" =>
               result.value.confidence
                   = LargestConfidence(HighPriorityMatches(TagsFullQuery))
        /\ result.value.stage \in {"semantic", "low-confidence"} =>
               result.value.confidence
                   = LargestConfidence(MatchingPatterns(SEMANTIC_PATTERNS, TagsFullQuery))

\* C22 (intentToTagsTool): in the general stage the confidence is the one a
\* single matching pattern has, 0.5 + 0.1, however many patterns match; in
\* the high-priority stage it is 0.9.
C22_IntentConfidenceIsMax ==
    Returned("intent-to-tags") =>
        /\ result.value.tags.stage = "high-priority" => result.value.tags.confidence = 90
        /\ result.value.tags.stage = "semantic" =>
               result.value.tags.confidence = Min(90, 50 + 10)

\* C22: when several patterns of a stage match, the confidence the tag
\* resolvers report is the largest of the matching patterns' confidences; it
\* does not grow with the number of matching patterns.
C22_ConfidenceIsMaxOfMatched ==
    /\ C22_TagsConfidenceIsMax
    /\ C22_IntentConfidenceIsMax

(***************************************************************************)
(* C23.  The precedence of the radius resolver without an explicit         *)
(* distance.                                                               *)
(***************************************************************************)
\* The query names no explicit distance.
NoExplicitDistance == ExplicitDistance(LowerTokens(call.query)) = ""

\* The resolved location of the call, lowered; "" without one.
RadiusLocationLower ==
    ToLowerCase(IF IsDefined(call.detectedLocation) THEN ValueOf(call.detectedLocation)
                ELSE "")

\* The is_neighborhood flag is set, or the location is a curated
\* neighborhood.
NeighborhoodSignal ==
    \/ call.isNeighborhood = Some(TRUE)
    \/ RadiusLocationLower \in NEIGHBORHOODS

\* The location holds the name of a curated neighborhood, or is a part of
\* one.
NeighborhoodInLocation ==
    /\ RadiusLocationLower # ""
    /\ \E n \in NEIGHBORHOODS :
           Includes(RadiusLocationLower, n) \/ Includes(n, RadiusLocationLower)

\* The radius of the first proximity class with a phrase in the query, 0
\* when the query has no proximity phrase.
ProximityRadius ==
    LET classes == {k \in DOMAIN AREA_CLASSIFICATIONS :
                       HasAnyPhrase(LowerTokens(call.query),
                                    AREA_CLASSIFICATIONS[k].patterns)}
    IN  IF classes = {} THEN 0
        ELSE AREA_CLASSIFICATIONS[CHOOSE k \in classes : \A j \in classes : k <= j].radius

\* C23: without an explicit distance a neighborhood signal gives 5, else a
\* proximity phrase gives 3, 5 or 25, else any location gives 20, else 20.
C23_RadiusPrecedence ==
    Returned("radius") /\ NoExplicitDistance =>
        result.value.radiusKm =
            IF NeighborhoodSignal THEN 5
            ELSE IF ProximityRadius # 0 THEN ProximityRadius
            ELSE 20

\* C23 (amended): without an explicit distance a neighborhood signal gives
\* 5, else a proximity phrase gives 3, 5 or 25 (the first class in that
\* order), else a location that holds a curated neighborhood's name or is
\* part of one gives 5, else any other location gives 20, else 20.
C23_RadiusPrecedenceWithPartialNames ==
    Returned("radius") /\ NoExplicitDistance =>
        result.value.radiusKm =
            IF NeighborhoodSignal THEN 5
            ELSE IF ProximityRadius # 0 THEN ProximityRadius
            ELSE IF NeighborhoodInLocation THEN 5
            ELSE 20

\* A location holding a neighborhood's name, the flag not set: 3 with
\* "nearby" in the query.
C23_Witness ==
    /\ Returned("radius")
    /\ NoExplicitDistance
    /\ call.detectedLocation = Some("HSR Layout, Bengaluru")
    /\ call.isNeighborhood # Some(TRUE)
    /\ HasWord(call.query, "nearby")
    /\ result.value.radiusKm = 3

\* The same location without a proximity phrase: 5.
C23_WitnessPartialName ==
    /\ Returned("radius")
    /\ NoExplicitDistance
    /\ call.detectedLocation = Some("HSR Layout, Bengaluru")
    /\ call.isNeighborhood # Some(TRUE)
    /\ ProximityRadius = 0
    /\ result.value.radiusKm = 5

\* "in the area", without a neighborhood signal, gives 5.
C23_WitnessInTheArea ==
    /\ Returned("radius")
    /\ NoExplicitDistance
    /\ ~NeighborhoodSignal
    /\ call.detectedLocation = Some("Pune")
    /\ call.query = <<"in", "the", "area">>
    /\ result.value.radiusKm = 5

(***************************************************************************)
(* C24.  The budget class of cheap and of student indicators.              *)
(***************************************************************************)
\* The query has neither an explicit price phrase nor a free indicator.
NoPriceNoFree ==
    /\ PriceNumbers(call.query) = {}
    /\ ~HasWord(LowerTokens(call.query), "free")

StudentIndicator == HasWord(LowerTokens(call.query), "student")

CheapIndicator == HasWord(LowerTokens(call.query), "cheap")

PremiumIndicator ==
    \/ HasWord(LowerTokens(call.query), "premium")
    \/ HasWord(LowerTokens(call.query), "high-end")

BudgetClass(maxPrice) == [type |-> "budget", maxPrice |-> Some(maxPrice), freeOnly |-> FALSE]

\* C24: without an explicit price phrase and without a free indicator, every
\* query with a student indicator resolves to class budget with max_price
\* 300, and a query with a cheap indicator and no student indicator to class
\* budget with max_price 500.
C24_StudentIs300 ==
    Returned("budget") /\ NoPriceNoFree =>
        /\ StudentIndicator => result.value.budget = BudgetClass(300)
        /\ CheapIndicator /\ ~StudentIndicator => result.value.budget = BudgetClass(500)

\* What holds: the student indicator gives 300 when the query has neither a
\* cheap nor a premium indicator, and a cheap indicator gives 500 with or
\* without a student indicator.
C24_StudentAloneIs300 ==
    Returned("budget") /\ NoPriceNoFree =>
        /\ StudentIndicator /\ ~CheapIndicator /\ ~PremiumIndicator =>
               result.value.budget = BudgetClass(300)
        /\ CheapIndicator => result.value.budget = BudgetClass(500)

(***************************************************************************)
(* C25.  "next week" and "next weekend".                                   *)
(***************************************************************************)
NextWeekPhrases == {<<"next", "week">>, <<"Next", "Weekend">>, <<"next", "weekend">>,
                    <<"events">>}

NextWeekCalls ==
    {[tool |-> "when", query |-> query, now |-> clock.now,
      offsetMinutes |-> clock.offsetMinutes] :
        query \in Queries(NextWeekPhrases, MaxWhenPhrases), clock \in WhenClocks}

SpecNextWeek == InitOf(NextWeekCalls) /\ [][WhenExecute]_vars

SaysNextWeek == HasPhrase(LowerTokens(call.query), <<"next", "week">>)

SaysNextWeekend == HasPhrase(LowerTokens(call.query), <<"next", "weekend">>)

\* The day written as DD/MM/YYYY at place from of a string.
DayWrittenAt(str, from) ==
    DayNumber(NumberIn(str, from + 6, from + 9), NumberIn(str, from + 3, from + 4) - 1,
              NumberIn(str, from, from + 1))

\* str is "DD/MM/YYYY - DD/MM/YYYY".
IsWrittenRange(str) ==
    /\ Len(str) = 23
    /\ \A i \in {1, 2, 4, 5, 7, 8, 9, 10, 14, 15, 17, 18, 20, 21, 22, 23} :
           IsDigit(CharAt(str, i))
    /\ \A i \in {3, 6, 16, 19} : CharAt(str, i) = "/"
    /\ SubSeq(str, 11, 13) = " - "

\* The result is the range from the first Monday after the call's day to the
\* Sunday six days after that Monday, written "DD/MM/YYYY - DD/MM/YYYY".
ResolvesToNextWeek ==
    /\ result.value.success
    /\ result.value.detected
    /\ LET when == ValueOf(result.value.when)
           start == LocalOf(when.startDate, call.offsetMinutes)
           end == LocalOf(when.endDate, call.offsetMinutes)
       IN  /\ when.type = "range"
           /\ WeekdayOf(start.day) = 1
           /\ start.day - call.now.day \in 1..7
           /\ end.day = start.day + 6
           /\ WeekdayOf(end.day) = 0
           /\ IsWrittenRange(when.value)
           /\ DayWrittenAt(when.value, 1) = start.day
           /\ DayWrittenAt(when.value, 14) = end.day

\* C25: every query containing "next week" or "next weekend" resolves to
\* the range from the Monday following the current week to the Sunday six
\* days after it, written "DD/MM/YYYY - DD/MM/YYYY".
C25_NextWeekIsMondayToSunday ==
    Returned("when") /\ (SaysNextWeek \/ SaysNextWeekend) => ResolvesToNextWeek

\* What holds: a query containing "next week" and none of the words
\* "weekend", "today", "tonight", "this evening" and "tomorrow" resolves to
\* that range.
C25_NextWeekWithoutWeekend ==
    Returned("when") /\ SaysNextWeek /\ ~SaysWeekend /\ ~SaysTodayOrTomorrow =>
        ResolvesToNextWeek

(***************************************************************************)
(* C26.  The coordinates event retrieval searches at.                      *)
(***************************************************************************)
PlaceChoices ==
    [city : {Undefined, Some(""), Some("Atlantis"), Some("Pune")},
     coordinates : {Undefined, Some([latitude |-> 190760, longitude |-> 728777])}]

PlaceCalls ==
    {[tool |-> "event-search", city |-> place.city, coordinates |-> place.coordinates,
      query |-> Undefined, tags |-> tags, radiusKm |-> DEFAULT_RADIUS_KM,
      limit |-> DEFAULT_LIMIT, offset |-> 0, sortBy |-> "distance",
      response |-> response] :
        place \in PlaceChoices, tags \in {Undefined, Some(<<"Music">>)},
        response \in CatalogResponses}

SpecSearchPlaces == InitOf(PlaceCalls) /\ [][EventSearchExecute]_vars

\* The location of the request event retrieval made.
RequestedLocation == result.requests[1].location

\* The coordinates the static table has for a city name.
TableCoordinates(name) ==
    LET row == CHOOSE i \in DOMAIN INDIAN_CITY_COORDINATES :
                   INDIAN_CITY_COORDINATES[i].name = name
    IN  Some([lat |-> Some(INDIAN_CITY_COORDINATES[row].lat),
              lng |-> Some(INDIAN_CITY_COORDINATES[row].lng)])

\* The city of the call is a city of the static table.
CityResolves ==
    /\ IsDefined(call.city)
    /\ \E i \in DOMAIN INDIAN_CITY_COORDINATES :
           INDIAN_CITY_COORDINATES[i].name = ToLowerCase(ValueOf(call.city))

ExplicitCoordinates ==
    Some([lat |-> Some(ValueOf(call.coordinates).latitude),
          lng |-> Some(ValueOf(call.coordinates).longitude)])

\* C26: event retrieval searches at the explicit coordinates whenever they
\* are supplied, else at the coordinates of the city when it resolves, else
\* at the coordinates of the fallback city, never without a location.
C26_CoordinatePrecedence ==
    Returned("event-search") =>
        RequestedLocation =
            IF IsDefined(call.coordinates) THEN ExplicitCoordinates
            ELSE IF CityResolves THEN TableCoordinates(ToLowerCase(ValueOf(call.city)))
            ELSE TableCoordinates("bangalore")

\* What holds: the precedence is as stated when coordinates or a city name
\* are supplied, and a search without coordinates and without a city name
\* is made without a location.
C26_PrecedenceWhenPlaceGiven ==
    Returned("event-search") =>
        RequestedLocation =
            IF IsDefined(call.coordinates) THEN ExplicitCoordinates
            ELSE IF CityResolves THEN TableCoordinates(ToLowerCase(ValueOf(call.city)))
            ELSE IF IsDefined(call.city) /\ ValueOf(call.city) # ""
            THEN TableCoordinates("bangalore")
            ELSE Undefined

(***************************************************************************)
(* C27.  The ranking of the surviving events by the query.                 *)
(***************************************************************************)
\* The search has a free-text query, so its survivors are ranked.
SearchRanked ==
    SearchSucceeded /\ IsDefined(call.query) /\ Len(ValueOf(call.query)) > 0

\* The tokens of the query that count: those of three letters or more.
ScoringTokens == {i \in DOMAIN ValueOf(call.query) : Len(ValueOf(call.query)[i]) >= 3}

\* 3 when the name holds the token, plus 2 when a tag does, plus 1 when the
\* description does, letter case aside.
TokenScore(event, token) ==
    (IF Contains(event.name, token) THEN 3 ELSE 0)
    + (IF \E t \in DOMAIN event.tags : Contains(event.tags[t], token) THEN 2 ELSE 0)
    + (IF Contains(event.description, token) THEN 1 ELSE 0)

RECURSIVE SumOver(_, _, _)
SumOver(event, tokens, is) ==
    IF is = {} THEN 0
    ELSE LET i == CHOOSE i \in is : TRUE
         IN  TokenScore(event, tokens[i]) + SumOver(event, tokens, is \ {i})

\* The score of an event for the query of the call.
ScoreOf(event) == SumOver(event, ValueOf(call.query), ScoringTokens)

\* The place of an event among the survivors of the tag filter.
CatalogPlace(event) == CHOOSE i \in DOMAIN Survivors : Survivors[i] = event

\* C27: with a free-text query the surviving events are returned in
\* non-increasing order of their score, events of one score in the order of
\* the catalog's answer, and the ranking neither adds nor removes an event:
\* every returned event is a survivor, none is returned twice, and all of
\* them are returned when the limit leaves room.
C27_RankedByScore ==
    SearchRanked =>
        LET events == result.value.events
        IN  /\ \A i, j \in DOMAIN events :
                   i < j =>
                       /\ ScoreOf(events[i]) >= ScoreOf(events[j])
                       /\ ScoreOf(events[i]) = ScoreOf(events[j])
                              => CatalogPlace(events[i]) < CatalogPlace(events[j])
            /\ Range(events) \subseteq Range(Survivors)
            /\ \A e \in Range(Survivors) \ Range(events) :
                   /\ Len(events) = call.limit
                   /\ \A i \in DOMAIN events : ScoreOf(events[i]) >= ScoreOf(e)
            /\ call.limit >= Len(Survivors) => Len(events) = Len(Survivors)

\* The rock event before the jazz event in the catalog's answer: the jazz
\* event, of the higher score for "Night music", is returned first.
C27_Witness ==
    /\ SearchRanked
    /\ call.query = Some(<<"Night", "music">>)
    /\ [i \in DOMAIN Survivors |-> Survivors[i].id] = <<"e3", "e1">>
    /\ [i \in DOMAIN result.value.events |-> result.value.events[i].id] = <<"e1", "e3">>
    /\ ScoreOf(result.value.events[1]) = 5
    /\ ScoreOf(result.value.events[2]) = 4

\* Two events of one score are returned in the catalog's order.
C27_WitnessTie ==
    /\ SearchRanked
    /\ Len(result.value.events) = 2
    /\ ScoreOf(result.value.events[1]) = ScoreOf(result.value.events[2])
    /\ result.value.events = Survivors

(***************************************************************************)
(* C28, C29.  Approve and edit commands for one notification id.           *)
(***************************************************************************)
\* The replies posted on a command for the notification id.
PostsFor(notificationId) ==
    {k \in DOMAIN result.posts : result.posts[k].by.notificationId = notificationId}

\* C28: whatever approve and edit commands are handled for one notification
\* id, repeated ones included, at most one reply is posted for it.
C28_PostedAtMostOnce ==
    ManualMode =>
        \A i \in DOMAIN result.store :
            Cardinality(PostsFor(result.store[i].notificationId)) <= 1

\* C29: a stored draft has the status "approved" only if its response was
\* posted: after an approve command whose post the platform refused the
\* draft is not left with the status "approved".
C29_ApprovedOnlyIfPosted ==
    ManualMode =>
        \A i \in DOMAIN result.store :
            result.store[i].status = "approved"
                => PostsFor(result.store[i].notificationId) # {}


(***************************************************************************)
(* C30.  Absolute dates.                                                   *)
(***************************************************************************)
AbsoluteDatePhrases ==
    {<<"20th", "jan">>, <<"Jan", "20,", "2027">>, <<"31", "february">>, <<"29", "feb">>,
     <<"31/04/2026">>, <<"15-08-2026">>, <<"events">>}

AbsoluteDateCalls ==
    {[tool |-> "when", query |-> query, now |-> clock.now,
      offsetMinutes |-> clock.offsetMinutes] :
        query \in Queries(AbsoluteDatePhrases, MaxWhenPhrases), clock \in WhenClocks}

SpecAbsoluteDates == InitOf(AbsoluteDateCalls) /\ [][WhenExecute]_vars

\* A day, a month (0 is January) and a year as written; the year is the
\* year of the call's clock when none is written.
Written(day, month, year) ==
    [day |-> ParseInt(day), month |-> month,
     year |-> IF year = <<>> THEN GetFullYear(call.now) ELSE ParseInt(year[1])]

\* The dates written in the call's query in one of the three forms "Month
\* Day[, Year]", "Day Month[, Year]" and "DD/MM/YYYY", at any place.
WrittenDates ==
    LET q == LowerTokens(call.query)
    IN  UNION {{Written(c.num[2], c.num[1], SubSeq(c.num, 3, Len(c.num))) :
                    c \in MonthDayAt(q, i)}
               \cup {Written(c.num[1], c.num[2], SubSeq(c.num, 3, Len(c.num))) :
                         c \in DayMonthAt(q, i)}
               \cup {Written(c.num[1], ParseInt(c.num[2]) - 1, <<c.num[3]>>) :
                         c \in DateSlashAt(q, i)} :
               i \in DOMAIN q}

\* The day of the calendar: the month has that day in that year.
IsCalendarDate(w) ==
    /\ w.month \in 0..11
    /\ w.day \in 1..DaysInMonth(w.year, w.month)

\* str is "DD/MM/YYYY" and reads as the written date w.
ReadsAs(str, w) ==
    /\ Len(str) = 10
    /\ \A i \in {1, 2, 4, 5, 7, 8, 9, 10} : IsDigit(CharAt(str, i))
    /\ \A i \in {3, 6} : CharAt(str, i) = "/"
    /\ NumberIn(str, 1, 2) = w.day
    /\ NumberIn(str, 4, 5) = w.month + 1
    /\ NumberIn(str, 7, 10) = w.year

ReportsDate ==
    /\ Returned("when")
    /\ result.value.detected
    /\ ValueOf(result.value.when).type = "date"

\* C30: whenever the temporal resolver reports an absolute date, its value
\* "DD/MM/YYYY" has the day, the month and the year of a date written in the
\* query (the current year when none is written), and that date is a day of
\* the calendar: "31 February" is never reported as some other date.
C30_AbsoluteDateAsWritten ==
    ReportsDate =>
        \E w \in WrittenDates :
            IsCalendarDate(w) /\ ReadsAs(ValueOf(result.value.when).value, w)

\* What holds: when every date written in the query is a day of the
\* calendar, the reported date is one of them.
C30_CalendarDatesAsWritten ==
    (ReportsDate /\ \A w \in WrittenDates : IsCalendarDate(w)) =>
        \E w \in WrittenDates : ReadsAs(ValueOf(result.value.when).value, w)

====
